---- MODULE Spec2Model ----
(***************************************************************************)
(* A model of the RV32IMAFD interpreter of src/src/VirtualMachine.cpp:     *)
(* the per-instruction step (VirtualMachine::Step), the CSR file           *)
(* (ReadCSR / WriteCSR / CSRPrivilegeCheck), reset (Setup) and the part of *)
(* the memory bus the step consumes.                                       *)
(*                                                                         *)
(* A uint32_t is kept with its full width as the pair <<hi, lo>> of its    *)
(* two 16-bit halves (TLC's integers are 32-bit signed, so 0xffffffff is   *)
(* not a TLC integer).  An int32_t is a TLC integer.                       *)
(***************************************************************************)
EXTENDS Integers, Sequences, FiniteSets, TLC

\* ------------------------------------------------------------------------
\* 32-bit words
\* ------------------------------------------------------------------------

\* 2^16: the weight of the high half of a word.
Half == 256 * 256

\* The uint32_t with halves hi and lo.
U32(hi, lo) == <<hi, lo>>

\* The uint32_t of a natural number below 2^31.
Lit(n) == <<n \div Half, n % Half>>

\* uint32_t addition and subtraction (wrap modulo 2^32).
Add32(a, b) ==
    LET lo == a[2] + b[2]
        hi == a[1] + b[1] + (lo \div Half)
    IN  <<hi % Half, lo % Half>>

Sub32(a, b) ==
    LET lo == a[2] - b[2]
        hi == a[1] - b[1] + (lo \div Half)
    IN  <<hi % Half, lo % Half>>

\* Unsigned comparison (operator< and operator>= on uint32_t).
ULt(a, b) == a[1] < b[1] \/ (a[1] = b[1] /\ a[2] < b[2])
UGe(a, b) == ~ULt(a, b)

\* Bitwise operators on naturals of n bits.
RECURSIVE BitAnd(_, _, _)
BitAnd(x, y, n) ==
    IF n = 0 THEN 0
    ELSE (IF x % 2 = 1 /\ y % 2 = 1 THEN 1 ELSE 0)
         + 2 * BitAnd(x \div 2, y \div 2, n - 1)

RECURSIVE BitOr(_, _, _)
BitOr(x, y, n) ==
    IF n = 0 THEN 0
    ELSE (IF x % 2 = 1 \/ y % 2 = 1 THEN 1 ELSE 0)
         + 2 * BitOr(x \div 2, y \div 2, n - 1)

RECURSIVE BitXor(_, _, _)
BitXor(x, y, n) ==
    IF n = 0 THEN 0
    ELSE (IF (x % 2) # (y % 2) THEN 1 ELSE 0)
         + 2 * BitXor(x \div 2, y \div 2, n - 1)

And32(a, b) == <<BitAnd(a[1], b[1], 16), BitAnd(a[2], b[2], 16)>>
Or32(a, b)  == <<BitOr(a[1], b[1], 16), BitOr(a[2], b[2], 16)>>
Xor32(a, b) == <<BitXor(a[1], b[1], 16), BitXor(a[2], b[2], 16)>>
Not32(a)    == <<Half - 1 - a[1], Half - 1 - a[2]>>

\* Bit i (0..31) of a word.
Bit32(a, i) == IF i < 16 THEN (a[2] \div (2 ^ i)) % 2
                         ELSE (a[1] \div (2 ^ (i - 16))) % 2

\* uint32_t << n and uint32_t >> n for n in 0..31.
Shl32(a, n) ==
    IF n < 16
    THEN LET lo == a[2] * (2 ^ n)
         IN  <<(a[1] * (2 ^ n) + (lo \div Half)) % Half, lo % Half>>
    ELSE <<(a[2] * (2 ^ (n - 16))) % Half, 0>>

Shr32(a, n) ==
    IF n < 16
    THEN <<a[1] \div (2 ^ n),
           (a[2] \div (2 ^ n)) + (a[1] % (2 ^ n)) * (2 ^ (16 - n))>>
    ELSE <<0, a[1] \div (2 ^ (n - 16))>>

\* int32_t view of a word and back (the unions of AsSigned / AsUnsigned).
AsSigned(u) ==
    IF u[1] >= 32768 THEN (u[1] - Half) * Half + u[2] ELSE u[1] * Half + u[2]

AsUnsigned(s) == <<(s \div Half) % Half, s % Half>>

\* The natural number of a word below 2^31 (array index, CSR address).
ToNat(u) == u[1] * Half + u[2]

\* SignExtend(value, bit): value | (-1U << bit) when bit `bit` of value is set.
SignExtendBad(value, bit) == value
SignExtend(value, bit) ==
    LET sign == Shl32(U32(65535, 65535), bit)
    IN  IF Bit32(value, bit) = 1 THEN Or32(value, sign) ELSE value

\* ------------------------------------------------------------------------
\* Constants of VirtualMachine.hpp (the RISC-V privileged specification's
\* CSR numbers) and of RVInstruction
\* ------------------------------------------------------------------------

REGISTER_COUNT == 32
REG_ZERO == 0
REG_A0 == 10

CSR_FRM == 2
CSR_FCSR == 3
CSR_CYCLE == 3072
CSR_TIME == 3073
CSR_INSTRET == 3074
CSR_CYCLEH == 3200
CSR_TIMEH == 3201
CSR_INSTRETH == 3202
CSR_SSTATUS == 256
CSR_SIE == 260
CSR_STVEC == 261
CSR_SCOUNTEREN == 262
CSR_SENVCFG == 266
CSR_SSCRATCH == 320
CSR_SEPC == 321
CSR_SCAUSE == 322
CSR_STVAL == 323
CSR_SIP == 324
CSR_SATP == 384
CSR_SCONTEXT == 1448
CSR_MVENDORID == 3857
CSR_MARCHID == 3858
CSR_MIMPID == 3859
CSR_MHARTID == 3860
CSR_MSTATUS == 768
CSR_MISA == 769
CSR_MHPMEVENT3 == 803
CSR_MCYCLE == 2816
CSR_MINSTRET == 2818
CSR_MHPMCOUNTER3 == 2819
CSR_MCYCLEH == 2944
CSR_MINSTRETH == 2946
CSR_MHPMCOUNTER3H == 2947
CSR_PERFORMANCE_EVENT_MAX == 32
CSR_PERF_COUNTER_MAX == 32

\* fcsr flag bits.
CSR_FCSR_NX == 1
CSR_FCSR_UF == 2
CSR_FCSR_OF == 4
CSR_FCSR_DZ == 8
CSR_FCSR_NV == 16
CSR_FCSR_FLAGS == 31

\* ('E' << 24) | ('N' << 16) | ('I' << 8) | 'H' and
\* ('C' << 24) | ('A' << 16) | ('M' << 8) | 'V'.
MARCHID_VALUE == U32(69 * 256 + 78, 73 * 256 + 72)
MIMPID_VALUE == U32(67 * 256 + 65, 77 * 256 + 86)
\* ISA_32_BITS | ISA_A | ISA_D | ISA_F | ISA_I | ISA_M.
MISA_VALUE == U32(16384, 1 + 8 + 32 + 256 + 4096)

PrivilegeLevels == {"User", "Supervisor", "Machine"}

\* Rounding-mode field values of RVInstruction.
RM_ROUND_TO_NEAREST_TIES_EVEN == 0
RM_ROUND_TO_ZERO == 1
RM_ROUND_DOWN == 2
RM_ROUND_UP == 3
RM_ROUND_TO_NEAREST_TIES_MAX_MAGNITUDE == 4
RM_INVALID0 == 5
RM_INVALID1 == 6
RM_DYNAMIC == 7

\* ------------------------------------------------------------------------
\* Instruction types (RVInstruction::Type), grouped as Step's switch treats
\* them
\* ------------------------------------------------------------------------

BranchTypes == {"BEQ", "BNE", "BLT", "BGE", "BLTU", "BGEU"}
JumpTypes == {"JAL", "JALR"}
LoadTypes == {"LB", "LH", "LW", "LBU", "LHU"}
StoreTypes == {"SB", "SH", "SW"}
AluImmTypes == {"ADDI", "SLTI", "SLTIU", "XORI", "ORI", "ANDI"}
ShiftImmTypes == {"SLLI", "SRLI", "SRAI"}
AluRegTypes ==
    {"ADD", "SUB", "SLL", "SLT", "SLTU", "XOR", "SRL", "SRA", "OR", "AND"}
CsrRegTypes == {"CSRRW", "CSRRS", "CSRRC"}
CsrImmTypes == {"CSRRWI", "CSRRSI", "CSRRCI"}
CsrTypes == CsrRegTypes \cup CsrImmTypes
MulTypes == {"MUL", "MULH", "MULHSU", "MULHU"}
DivTypes == {"DIV", "DIVU", "REM", "REMU"}
AmoTypes ==
    {"AMOSWAP_W", "AMOADD_W", "AMOXOR_W", "AMOAND_W", "AMOOR_W",
     "AMOMIN_W", "AMOMAX_W", "AMOMINU_W", "AMOMAXU_W"}
FmaTypes ==
    {"FMADD_S", "FMSUB_S", "FNMSUB_S", "FNMADD_S",
     "FMADD_D", "FMSUB_D", "FNMSUB_D", "FNMADD_D"}
FArithTypes ==
    {"FADD_S", "FSUB_S", "FMUL_S", "FDIV_S",
     "FADD_D", "FSUB_D", "FMUL_D", "FDIV_D"}
FSqrtTypes == {"FSQRT_S", "FSQRT_D"}
FSgnjTypes ==
    {"FSGNJ_S", "FSGNJN_S", "FSGNJX_S", "FSGNJ_D", "FSGNJN_D", "FSGNJX_D"}
FMinMaxTypes == {"FMIN_S", "FMAX_S", "FMIN_D", "FMAX_D"}
FCvtToIntTypes == {"FCVT_W_S", "FCVT_WU_S", "FCVT_W_D", "FCVT_WU_D"}
FCmpTypes == {"FEQ_S", "FLT_S", "FLE_S", "FEQ_D", "FLT_D", "FLE_D"}
FClassTypes == {"FCLASS_S", "FCLASS_D"}
FCvtFromIntTypes == {"FCVT_S_W", "FCVT_S_WU", "FCVT_D_W", "FCVT_D_WU"}
FCvtFloatTypes == {"FCVT_S_D", "FCVT_D_S"}
NotImplementedTypes ==
    {"URET", "SRET", "MRET", "WFI", "SFENCE_VMA", "SINVAL_VMA",
     "SINVAL_GVMA", "SFENCE_W_INVAL", "SFENCE_INVAL_IR"}

\* Every RVInstruction::Type Step's switch names.
AllTypes ==
    {"LUI", "AUIPC", "FENCE", "ECALL", "EBREAK", "LR_W", "SC_W", "FLW", "FSW",
     "FMV_X_W", "FMV_W_X", "FLD", "FSD", "CUST_TVA", "INVALID"}
    \cup BranchTypes \cup JumpTypes \cup LoadTypes \cup StoreTypes
    \cup AluImmTypes \cup ShiftImmTypes \cup AluRegTypes \cup CsrTypes
    \cup MulTypes \cup DivTypes \cup AmoTypes \cup FmaTypes \cup FArithTypes
    \cup FSqrtTypes \cup FSgnjTypes \cup FMinMaxTypes \cup FCvtToIntTypes
    \cup FCmpTypes \cup FClassTypes \cup FCvtFromIntTypes \cup FCvtFloatTypes
    \cup NotImplementedTypes

\* A decoded instruction (RVInstruction): the fields Step reads.
Instr(type, rd, rs1, rs2, rs3, immediate, rm) ==
    [type |-> type, rd |-> rd, rs1 |-> rs1, rs2 |-> rs2, rs3 |-> rs3,
     immediate |-> immediate, rm |-> rm]

\* ------------------------------------------------------------------------
\* M extension arithmetic
\* ------------------------------------------------------------------------

\* The 32-bit product of two 16-bit naturals, as a word.
Mul16(x, y) ==
    LET p1 == (x \div 256) * y
        p0 == (x % 256) * y
        lo == p0 + (p1 % 256) * 256
    IN  <<(p1 \div 256) + (lo \div Half), lo % Half>>

\* The 64-bit product of two uint32_t, as <<high word, low word>>.
Mul64(a, b) ==
    LET ll == Mul16(a[2], b[2])
        hl == Mul16(a[1], b[2])
        lh == Mul16(a[2], b[1])
        hh == Mul16(a[1], b[1])
        t1 == ll[1] + hl[2] + lh[2]
        t2 == hl[1] + lh[1] + hh[2] + (t1 \div Half)
        t3 == hh[1] + (t2 \div Half)
    IN  <<U32(t3 % Half, t2 % Half), U32(t1 % Half, ll[2])>>

\* AsUnsigned(lhs * rhs) on int32_t, the product wrapping as the multiply
\* instruction of every supported host does.
MulLow(a, b) == Mul64(a, b)[2]

\* static_cast<uint32_t>((uint64_t lhs * uint64_t rhs) >> 32).
MulHighU(a, b) == Mul64(a, b)[1]

\* (int64_t lhs * uint64_t rhs) >> 32, lhs sign-extended from int32_t.
MulHighSU(a, b) ==
    IF AsSigned(a) < 0 THEN Sub32(MulHighU(a, b), b) ELSE MulHighU(a, b)

\* (int64_t lhs * int64_t rhs) >> 32, both sign-extended from int32_t.
MulHighS(a, b) ==
    LET su == MulHighSU(a, b)
    IN  IF AsSigned(b) < 0 THEN Sub32(su, a) ELSE su

INT32_MIN == -2147483647 - 1

\* C++ int32_t lhs / rhs (truncation toward zero) for rhs # 0 and not
\* (lhs = INT32_MIN and rhs = -1).
TruncDivPos(a, b) ==
    LET q == a \div b
    IN  IF a >= 0 \/ a % b = 0 THEN q ELSE q + 1

TruncDiv(lhs, rhs) ==
    IF rhs > 0 THEN TruncDivPos(lhs, rhs)
    ELSE IF rhs = INT32_MIN THEN (IF lhs = INT32_MIN THEN 1 ELSE 0)
    ELSE 0 - TruncDivPos(lhs, 0 - rhs)

\* C++ int32_t lhs % rhs, the remainder of the truncated division.
TruncRem(lhs, rhs) == lhs - rhs * TruncDiv(lhs, rhs)

\* uint32_t lhs / rhs and lhs % rhs for rhs # 0, as <<quotient, remainder>>,
\* computed on TLC's 31-bit naturals: a = 2 * (a >> 1) + (a & 1).
UDivMod(a, b) ==
    IF b[1] >= 32768
    THEN (IF UGe(a, b) THEN <<Lit(1), Sub32(a, b)>> ELSE <<Lit(0), a>>)
    ELSE LET bn == ToNat(b)
             ah == ToNat(Shr32(a, 1))
             a0 == a[2] % 2
             q0 == Lit(ah \div bn)
             r0 == ah % bn
         IN  IF r0 >= bn - r0 - a0
             THEN <<Add32(Add32(q0, q0), Lit(1)), Lit(r0 - (bn - r0 - a0))>>
             ELSE <<Add32(q0, q0), Lit(2 * r0 + a0)>>

UDiv(lhs, rhs) == UDivMod(lhs, rhs)[1]
URem(lhs, rhs) == UDivMod(lhs, rhs)[2]

\* The outcomes of `AsUnsigned(lhs / rhs)` in the DIV case, rhs # 0.  For
\* lhs = INT32_MIN and rhs = -1 the int32_t quotient overflows, which is
\* undefined behaviour: the hosts' divide instructions either trap (x86
\* idiv: the process dies with SIGFPE) or deliver INT32_MIN (AArch64 sdiv).
DivOutcomes(lhs, rhs) ==
    IF lhs = INT32_MIN /\ rhs = -1
    THEN {[trap |-> TRUE, value |-> Lit(0)],
          [trap |-> FALSE, value |-> AsUnsigned(INT32_MIN)]}
    ELSE {[trap |-> FALSE, value |-> AsUnsigned(TruncDiv(lhs, rhs))]}

\* The outcomes of `AsUnsigned(lhs % rhs)` in the REM case, rhs # 0: the
\* same overflow, where the host traps or delivers 0.
RemOutcomes(lhs, rhs) ==
    IF lhs = INT32_MIN /\ rhs = -1
    THEN {[trap |-> TRUE, value |-> Lit(0)],
          [trap |-> FALSE, value |-> Lit(0)]}
    ELSE {[trap |-> FALSE, value |-> AsUnsigned(TruncRem(lhs, rhs))]}

\* ------------------------------------------------------------------------
\* Bounds of the model and the sets its inputs are drawn from
\* ------------------------------------------------------------------------

\* The harts sharing the memory bus are 0..NumHarts-1.
NumHarts == 2
Harts == 0..(NumHarts - 1)

\* Every hart executes at most MaxCycles instructions.
MaxCycles == 2

\* The largest step count a caller passes to Step.
MaxSteps == 2

\* The instructions a hart executes on operands the specification draws.
DataSteps == 1

\* The RAM region of the bus: RamSize bytes from address 0x2000.  The code
\* image lies below it, from StartPc = 0x1000, and in a ROM that fills the
\* top 64 KiB of the address space.
RamBase == 2 * 4096
RamSize == 8
StartPc == RamBase \div 2
RamAddrs == {Lit(RamBase + i) : i \in 0..(RamSize - 1)}

\* ------------------------------------------------------------------------
\* The state
\* ------------------------------------------------------------------------

VARIABLES
    regs,              \* regs[h][r]: the integer registers of hart h
    fregs,             \* fregs[h][r]: the 64 bits of float register r,
                       \*   as <<high word, low word>>
    pc,                \* pc[h]
    csrs,              \* csrs[h]: the CSR map, a function on the
                       \*   addresses present
    privilege_level,   \* privilege_level[h]
    cycles,            \* cycles[h]
    ticks,             \* ticks[h]
    running,           \* running[h]
    break_points,      \* break_points[h]: a set of addresses
    time,              \* time[h]: csr_mapped_memory->time, as
                       \*   <<high word, low word>>
    memory,            \* the bus: RAM address -> byte
    reservation,       \* the bus: reservation[h] is the reserved granule
                       \*   of hart h, or NoReservation
    ctl,               \* ctl[h]: where hart h's thread is: "idle" (not in
                       \*   Step), "step" (in Step's loop), "fault" (Step
                       \*   left by an exception), "crash" (the process
                       \*   died in Step), "hang" (Step never returns)
    steps,             \* steps[h], i[h]: Step's parameter and loop counter
    i,
    instr,             \* instr[h]: the instruction Step decoded last
    before,            \* before[h]: pc, regs and cycles of hart h when the
                       \*   iteration that decoded instr[h] began
    err,               \* err[h]: the exception that left Step, or "none"
    ret,               \* ret[h]: what the last call of Step returned
    entry_cycles,      \* entry_cycles[h]: cycles when Step was entered
    log,               \* the accesses to the bus the harts have completed,
                       \*   in the order the bus served them
    paused,            \* paused[h]
    pause_on_break,    \* pause_on_break[h]
    loop,              \* loop[h]: where hart h's thread is in Run: "out"
                       \*   (not called), "top" (at the loop test),
                       \*   "yield" (in the yield of a paused hart),
                       \*   "call" (in Step, or back from it with ret not
                       \*   yet looked at), "done" (Run has returned)
    snapshot,          \* snapshot[h]: the call of GetSnapshot on hart h by
                       \*   another thread: at ("none", or the member
                       \*   copied last), the caller's registers,
                       \*   fregisters and pc, and seen, the states the
                       \*   hart was in during the call
    history_delta,     \* history_delta[h], history_tick[h]
    history_tick,
    time_cmp           \* time_cmp[h]: csr_mapped_memory->time_cmp, as
                       \*   <<high word, low word>>

vars ==
    <<regs, fregs, pc, csrs, privilege_level, cycles, ticks, running,
      break_points, time, memory, reservation, ctl, steps, i, instr, before,
      err, ret, entry_cycles, log, paused, pause_on_break, loop, snapshot,
      history_delta, history_tick, time_cmp>>

\* What the thread in Run and the embedder's flags hold.
runner == <<paused, pause_on_break, loop>>

\* What the other threads of the embedder hold: the snapshot being taken
\* and the timer's history.
observer == <<snapshot, history_delta, history_tick, time_cmp>>
outside == <<runner, observer>>

NoReservation == <<>>

\* ------------------------------------------------------------------------
\* The memory bus (Memory, of which this repository's source holds only
\* the calls): byte-addressed little-endian RAM, word accesses 4-byte
\* aligned, one reservation per hart on a 4-byte granule, cleared by every
\* write to the granule.  A bus state is [bytes, resv].
\* ------------------------------------------------------------------------

Granule(addr) == <<addr[1], addr[2] - (addr[2] % 4)>>
Aligned4(addr) == addr[2] % 4 = 0

Present(bus, addr, n) ==
    \A k \in 0..(n - 1) : Add32(addr, Lit(k)) \in DOMAIN bus.bytes

ByteAt(bus, addr, k) == bus.bytes[Add32(addr, Lit(k))]

\* ReadByte / ReadHalf / ReadWord: CanRead says whether the access succeeds
\* (it throws otherwise).
CanReadByte(bus, addr) == Present(bus, addr, 1)
CanReadHalf(bus, addr) == Present(bus, addr, 2)
CanReadWord(bus, addr) == Aligned4(addr) /\ Present(bus, addr, 4)

ReadByte(bus, addr) == Lit(ByteAt(bus, addr, 0))
ReadHalf(bus, addr) == Lit(ByteAt(bus, addr, 1) * 256 + ByteAt(bus, addr, 0))
ReadWord(bus, addr) ==
    U32(ByteAt(bus, addr, 3) * 256 + ByteAt(bus, addr, 2),
        ByteAt(bus, addr, 1) * 256 + ByteAt(bus, addr, 0))

\* PeekWord: <<value, present>>, never throwing.
PeekWord(bus, addr) ==
    IF CanReadWord(bus, addr) THEN <<ReadWord(bus, addr), TRUE>>
    ELSE <<Lit(0), FALSE>>

\* Byte k (0..3) of a word.
ByteOf(value, k) ==
    IF k = 0 THEN value[2] % 256
    ELSE IF k = 1 THEN value[2] \div 256
    ELSE IF k = 2 THEN value[1] % 256
    ELSE value[1] \div 256

\* The bus after storing the n low bytes of value at addr: the bytes
\* change, and every reservation on a granule written is cleared.
Store(bus, addr, value, n) ==
    LET written == {Add32(addr, Lit(k)) : k \in 0..(n - 1)}
        hit == {Granule(a) : a \in written}
    IN  [bytes |-> [a \in DOMAIN bus.bytes |->
                      IF a \in written
                      THEN ByteOf(value, CHOOSE k \in 0..(n - 1) :
                                           Add32(addr, Lit(k)) = a)
                      ELSE bus.bytes[a]],
         resv |-> [h \in DOMAIN bus.resv |->
                     IF bus.resv[h] \in hit THEN NoReservation
                     ELSE bus.resv[h]]]

CanWriteByte(bus, addr) == Present(bus, addr, 1)
CanWriteHalf(bus, addr) == Present(bus, addr, 2)
CanWriteWord(bus, addr) == Aligned4(addr) /\ Present(bus, addr, 4)
WriteByte(bus, addr, value) == Store(bus, addr, value, 1)
WriteHalf(bus, addr, value) == Store(bus, addr, value, 2)
WriteWord(bus, addr, value) == Store(bus, addr, value, 4)

\* ReadWordReserved(addr, hart): the word, and the bus with hart's
\* reservation set on the granule of addr.
ReadWordReserved(bus, addr, hart) ==
    [value |-> ReadWord(bus, addr),
     bus |-> [bus EXCEPT !.resv[hart] = Granule(addr)]]

\* WriteWordConditional(addr, value, hart): stores only if hart's
\* reservation is present and on the granule of addr; always clears hart's
\* reservation.
WriteWordConditional(bus, addr, value, hart) ==
    IF bus.resv[hart] # NoReservation /\ bus.resv[hart] = Granule(addr)
    THEN [success |-> TRUE, bus |-> WriteWord(bus, addr, value)]
    ELSE [success |-> FALSE,
          bus |-> [bus EXCEPT !.resv[hart] = NoReservation]]

\* The value an atomic read-modify-write stores, from the prior value.
AmoNew(type, prior, value) ==
    CASE type = "AMOSWAP_W" -> value
      [] type = "AMOADD_W" -> Add32(prior, value)
      [] type = "AMOXOR_W" -> Xor32(prior, value)
      [] type = "AMOAND_W" -> And32(prior, value)
      [] type = "AMOOR_W" -> Or32(prior, value)
      [] type = "AMOMIN_W" ->
            IF AsSigned(prior) < AsSigned(value) THEN prior ELSE value
      [] type = "AMOMAX_W" ->
            IF AsSigned(prior) < AsSigned(value) THEN value ELSE prior
      [] type = "AMOMINU_W" -> IF ULt(prior, value) THEN prior ELSE value
      [] type = "AMOMAXU_W" -> IF ULt(prior, value) THEN value ELSE prior

\* AtomicSwap .. AtomicMaxU(addr, value): the prior value, and the bus
\* with the new value stored.
Atomic(bus, type, addr, value) ==
    [value |-> ReadWord(bus, addr),
     bus |-> WriteWord(bus, addr, AmoNew(type, ReadWord(bus, addr), value))]

\* ------------------------------------------------------------------------
\* The CSR file.  The operators below take the view st of one hart:
\* [regs, fregs, pc, csrs, privilege_level, cycles, time, bus, err].
\* ------------------------------------------------------------------------

\* csrs[csr] of std::unordered_map: an absent key is inserted with value 0.
CsrTouch(map, csr) ==
    IF csr \in DOMAIN map THEN map ELSE map @@ (csr :> Lit(0))

CSRPrivilegeCheck(csr, level) ==
    IF csr < 4 \/ (csr >= 3072 /\ csr < 3312)
    THEN TRUE
    ELSE IF (csr >= 256 /\ csr < 289) \/ csr = CSR_SCONTEXT
    THEN level # "User"
    ELSE level = "Machine"

\* ReadCSR(csr, is_internal_read): [err, value]; err is "none" or what is
\* thrown.
ReadCSR(st, csr, is_internal_read) ==
    IF ~is_internal_read /\ ~CSRPrivilegeCheck(csr, st.privilege_level)
    THEN [err |-> "CSR Read Privilege", value |-> Lit(0)]
    ELSE IF csr \notin DOMAIN st.csrs
    THEN [err |-> "Read Invalid CSR", value |-> Lit(0)]
    ELSE IF \/ (/\ csr >= CSR_MHPMEVENT3
                /\ csr < CSR_MHPMEVENT3 + CSR_PERFORMANCE_EVENT_MAX - 3)
            \/ (/\ csr >= CSR_MHPMCOUNTER3
                /\ csr < CSR_MHPMCOUNTER3 + CSR_PERF_COUNTER_MAX - 3)
            \/ (/\ csr >= CSR_MHPMCOUNTER3H
                /\ csr < CSR_MHPMCOUNTER3H + CSR_PERF_COUNTER_MAX - 3)
    THEN [err |-> "none", value |-> Lit(0)]
    ELSE IF csr \in {CSR_MCYCLE, CSR_CYCLE}
    THEN [err |-> "none", value |-> Lit(st.cycles)]
    ELSE IF csr \in {CSR_MCYCLEH, CSR_CYCLEH}
    THEN [err |-> "none", value |-> Lit(0)]
    ELSE IF csr = CSR_TIME
    THEN [err |-> "none", value |-> st.time[2]]
    ELSE IF csr = CSR_TIMEH
    THEN [err |-> "none", value |-> st.time[1]]
    ELSE [err |-> "none", value |-> st.csrs[csr]]

ReadOnlyCsrs ==
    {CSR_MVENDORID, CSR_MARCHID, CSR_MIMPID, CSR_MHARTID, CSR_MISA,
     CSR_MINSTRET, CSR_MINSTRETH, CSR_CYCLE, CSR_CYCLEH, CSR_TIME, CSR_TIMEH}

\* WriteCSR(csr, value): [err, csrs].
WriteCSR(st, csr, value) ==
    IF ~CSRPrivilegeCheck(csr, st.privilege_level)
    THEN [err |-> "CSR Write Privilege", csrs |-> st.csrs]
    ELSE IF csr \notin DOMAIN st.csrs
    THEN [err |-> "Write Invalid CSR", csrs |-> st.csrs]
    ELSE IF csr \in ReadOnlyCsrs
    THEN [err |-> "none", csrs |-> st.csrs]
    ELSE [err |-> "none", csrs |-> [st.csrs EXCEPT ![csr] = value]]

\* ChangeRoundingMode(rm): "ok" (true), "invalid" (false), or "overflow":
\* with rm = RM_DYNAMIC the function calls itself with bits [7:5] of fcsr,
\* and when those are RM_DYNAMIC too the recursion never ends (the stack
\* overflows).  Reading csrs[CSR_FCSR] inserts the key: RoundingCsrs.
ChangeRoundingMode(map, rm) ==
    IF rm \in {RM_ROUND_TO_NEAREST_TIES_EVEN, RM_ROUND_TO_ZERO,
               RM_ROUND_DOWN, RM_ROUND_UP}
    THEN "ok"
    ELSE IF rm \in {RM_ROUND_TO_NEAREST_TIES_MAX_MAGNITUDE, RM_INVALID0,
                    RM_INVALID1}
    THEN "invalid"
    ELSE LET fcsr == CsrTouch(map, CSR_FCSR)[CSR_FCSR]
             dyn == ToNat(And32(Shr32(fcsr, 5), Lit(7)))
         IN  IF dyn \in {RM_ROUND_TO_NEAREST_TIES_EVEN, RM_ROUND_TO_ZERO,
                         RM_ROUND_DOWN, RM_ROUND_UP}
             THEN "ok"
             ELSE IF dyn = RM_DYNAMIC THEN "overflow" ELSE "invalid"

RoundingCsrs(map, rm) ==
    IF rm = RM_DYNAMIC THEN CsrTouch(map, CSR_FCSR) ELSE map

FlagIf(cond, flag) == IF cond THEN Lit(flag) ELSE Lit(0)

\* CheckFloatErrors with the host's flags being except: [csrs, failed].
CheckFloatErrors(map, except) ==
    LET m0 == CsrTouch(map, CSR_FCSR)
        cleared == And32(m0[CSR_FCSR], Not32(Lit(CSR_FCSR_FLAGS)))
        flags == Or32(FlagIf("FE_DIVBYZERO" \in except, CSR_FCSR_DZ),
                 Or32(FlagIf("FE_INEXACT" \in except, CSR_FCSR_NX),
                 Or32(FlagIf("FE_INVALID" \in except, CSR_FCSR_NV),
                 Or32(FlagIf("FE_OVERFLOW" \in except, CSR_FCSR_OF),
                      FlagIf("FE_UNDERFLOW" \in except, CSR_FCSR_UF)))))
    IN  [csrs |-> [m0 EXCEPT ![CSR_FCSR] = Or32(cleared, flags)],
         failed |-> ("FE_DIVBYZERO" \in except \/ "FE_INVALID" \in except)]

\* SetFloatFlags(invalid_op, div_by_zero, overflow, underflow, inexact).
SetFloatFlags(map, invalid_op, div_by_zero, overflow, underflow, inexact) ==
    LET m0 == CsrTouch(map, CSR_FCSR)
        flags == Or32(FlagIf(invalid_op, CSR_FCSR_NV),
                 Or32(FlagIf(div_by_zero, CSR_FCSR_DZ),
                 Or32(FlagIf(overflow, CSR_FCSR_OF),
                 Or32(FlagIf(underflow, CSR_FCSR_UF),
                      FlagIf(inexact, CSR_FCSR_NX)))))
    IN  IF invalid_op \/ div_by_zero \/ overflow \/ underflow \/ inexact
        THEN [m0 EXCEPT ![CSR_FCSR] = Or32(m0[CSR_FCSR], flags)]
        ELSE map

\* ------------------------------------------------------------------------
\* The Sv32 address translator
\* ------------------------------------------------------------------------

\* Bits lo .. lo+width-1 of a word, as a word.
Field(w, lo, width) == And32(Shr32(w, lo), Sub32(Shl32(Lit(1), width), Lit(1)))

\* TLBEntry bit-fields (the Sv32 page-table entry).
PteV(e) == Bit32(e, 0) = 1
PteR(e) == Bit32(e, 1) = 1
PteW(e) == Bit32(e, 2) = 1
PteX(e) == Bit32(e, 3) = 1
PteA(e) == Bit32(e, 6) = 1
PteD(e) == Bit32(e, 7) = 1
PtePPN_0(e) == Field(e, 10, 10)
PtePPN_1(e) == Field(e, 20, 12)
PtePPN(e) == Field(e, 10, 22)
IsLeaf(e) == PteR(e) \/ PteW(e) \/ PteX(e)

\* The lambda ReadTLBEntry: [err, entry].
ReadTLBEntry(bus, address) ==
    LET read == PeekWord(bus, address)
    IN  IF ~read[2]
        THEN [err |-> "Address translation failed, PPN access-fault",
              entry |-> Lit(0)]
        ELSE IF ~PteV(read[1]) \/ (~PteR(read[1]) /\ PteW(read[1]))
        THEN [err |-> "Address translation failed, PPN page-fault",
              entry |-> read[1]]
        ELSE [err |-> "none", entry |-> read[1]]

\* TranslateMemoryAddress(address, is_write): [err, value].
TranslateMemoryAddress(st, address, is_write) ==
    LET offset == Field(address, 0, 12)
        vpn_0 == Field(address, 12, 10)
        vpn_1 == Field(address, 22, 10)
        root_table_address == Shl32(st.csrs[CSR_SATP], 12)
        ppn_1 == ReadTLBEntry(st.bus, Add32(root_table_address, Shl32(vpn_1, 2)))
        super == IsLeaf(ppn_1.entry)
        second == ReadTLBEntry(st.bus, Add32(Shl32(PtePPN(ppn_1.entry), 12),
                                             Shl32(vpn_0, 2)))
        leaf == IF super THEN ppn_1.entry ELSE second.entry
    IN  IF CSR_SATP \notin DOMAIN st.csrs
        THEN [err |-> "std::out_of_range", value |-> Lit(0)]
        ELSE IF ppn_1.err # "none"
        THEN [err |-> ppn_1.err, value |-> Lit(0)]
        ELSE IF ~super /\ second.err # "none"
        THEN [err |-> second.err, value |-> Lit(0)]
        ELSE IF ~super /\ ~IsLeaf(leaf)
        THEN [err |-> "Address translation failed, PPN page-fault",
              value |-> Lit(0)]
        ELSE IF super /\ PtePPN_0(leaf) # Lit(0)
        THEN [err |-> "Address translation failed, PPN page-fault",
              value |-> Lit(0)]
        ELSE IF ~PteA(leaf) \/ (PteD(leaf) /\ is_write)
        THEN [err |-> "Address translation failed, page-fault",
              value |-> Lit(0)]
        ELSE IF super
        THEN [err |-> "none",
              value |-> Or32(Shl32(PtePPN_1(leaf), 22),
                             Or32(Shl32(vpn_0, 12), offset))]
        ELSE [err |-> "none",
              value |-> Or32(Shl32(PtePPN(leaf), 12), offset)]

\* ------------------------------------------------------------------------
\* Float support.  A Float (the union of f, d, u32, u64) is the pair
\* <<high word, low word>> of its 64 bits; f and u32 are the low word.
\* The host's floating-point arithmetic is not part of the program: its
\* results are inputs, drawn from HostArith, HostResults and HostInts.
\* ------------------------------------------------------------------------

RV_F32_NAN == <<U32(65535, 65535), U32(32704, 0)>>
RV_F32_QNAN == <<U32(65535, 65535), U32(65472, 0)>>
RV_F64_NAN == <<U32(32752, 0), Lit(0)>>
RV_F64_QNAN == <<U32(65520, 0), Lit(0)>>

\* +0.0f and -1.0f; +0.0 and -1.0.
HostF32 == {Lit(0), U32(49024, 0)}
HostF64 == {<<Lit(0), Lit(0)>>, <<U32(49136, 0), Lit(0)>>}

ClassF32(value) ==
    LET u32 == value[2]
        sign == Bit32(u32, 31)
        exp == ToNat(And32(Shr32(u32, 23), Lit(255)))
        frac == ToNat(And32(u32, U32(127, 65535)))
        quiet == Bit32(u32, 22) = 1
    IN  [is_inf |-> exp = 255 /\ frac = 0,
         is_nan |-> exp = 255 /\ frac # 0 /\ ~quiet,
         is_qnan |-> exp = 255 /\ quiet,
         is_subnormal |-> exp = 0 /\ frac # 0,
         is_zero |-> exp = 0 /\ frac = 0,
         is_neg |-> sign # 0]

ClassF64(value) ==
    LET sign == Bit32(value[1], 31)
        exp == ToNat(And32(Shr32(value[1], 20), Lit(2047)))
        frac_zero == And32(value[1], U32(15, 65535)) = Lit(0) /\ value[2] = Lit(0)
        quiet == Bit32(value[1], 19) = 1
    IN  [is_inf |-> exp = 2047 /\ frac_zero,
         is_nan |-> exp = 2047 /\ ~frac_zero /\ ~quiet,
         is_qnan |-> exp = 2047 /\ quiet,
         is_subnormal |-> exp = 0 /\ ~frac_zero,
         is_zero |-> exp = 0 /\ frac_zero,
         is_neg |-> sign # 0]

IsDoubleType(type) ==
    type \in {"FMADD_D", "FMSUB_D", "FNMSUB_D", "FNMADD_D", "FADD_D",
              "FSUB_D", "FMUL_D", "FDIV_D", "FSQRT_D", "FSGNJ_D", "FSGNJN_D",
              "FSGNJX_D", "FMIN_D", "FMAX_D", "FEQ_D", "FLT_D", "FLE_D",
              "FCLASS_D", "FCVT_W_D", "FCVT_WU_D", "FCVT_D_W", "FCVT_D_WU",
              "FCVT_D_S"}

Class(type, value) ==
    IF IsDoubleType(type) THEN ClassF64(value) ELSE ClassF32(value)

\* FCLASS.S / FCLASS.D: the mask written to rd.
ClassMask(c) ==
    LET b(cond, k) == IF cond THEN 2 ^ k ELSE 0
    IN  Lit(b(c.is_inf /\ c.is_neg, 0)
            + b(~c.is_subnormal /\ c.is_neg, 1)
            + b(c.is_subnormal /\ c.is_neg, 2)
            + b(c.is_zero /\ c.is_neg, 3)
            + b(c.is_zero /\ ~c.is_neg, 4)
            + b(c.is_subnormal /\ ~c.is_neg, 5)
            + b(~c.is_subnormal /\ ~c.is_nan, 6)
            + b(c.is_inf /\ ~c.is_neg, 7)
            + b(c.is_nan, 8)
            + b(c.is_qnan, 9))

\* The types whose case begins with
\* `if (!ChangeRoundingMode(instr.rm)) InvalidInstruction();`.
RoundedTypes ==
    FmaTypes \cup FArithTypes \cup FSqrtTypes \cup FCvtToIntTypes
    \cup FCmpTypes \cup FClassTypes \cup {"FCVT_S_D"}

\* ------------------------------------------------------------------------
\* Step's dispatch.  Each Exec* operator is one group of cases of the switch
\* on instr.type: the set of hart views the case can leave, with err set
\* when the case throws and pc as the case leaves it (the advance by 4 that
\* follows the switch is PcAdvance).
\* ------------------------------------------------------------------------

SetReg(st, rd, value) == [st EXCEPT !.regs[rd] = value]
SetFreg(st, rd, value) == [st EXCEPT !.fregs[rd] = value]
Throw(st, what) == [st EXCEPT !.err = what]

\* What Memory throws for an absent or misaligned access.
MemoryFault == "Memory access fault"

\* The lambda InvalidInstruction: reads the word at pc and throws.
InvalidInstruction(st) == Throw(st, "Invalid instruction")

ExecLUI(st, ins) == {SetReg(st, ins.rd, ins.immediate)}

ExecAUIPC(st, ins) == {SetReg(st, ins.rd, Add32(st.pc, ins.immediate))}

ExecJAL(st, ins) ==
    LET next_pc == Add32(st.pc, Lit(4))
    IN  {[st EXCEPT !.pc = Add32(st.pc, ins.immediate),
                    !.regs[ins.rd] = next_pc]}

\* JALR with the link written before the target is computed.
ExecJALRLinkFirst(st, ins) ==
    LET next_pc == Add32(st.pc, Lit(4))
        linked == [st.regs EXCEPT ![ins.rd] = next_pc]
    IN  {[st EXCEPT !.pc = And32(Add32(linked[ins.rs1], ins.immediate),
                                 U32(65535, 65534)),
                    !.regs = linked]}
ExecJALR(st, ins) ==
    LET next_pc == Add32(st.pc, Lit(4))
    IN  {[st EXCEPT !.pc = And32(Add32(st.regs[ins.rs1], ins.immediate),
                                 U32(65535, 65534)),
                    !.regs[ins.rd] = next_pc]}

\* The condition of each conditional branch.
BranchTakenUnsignedOnly(type, lhs, rhs) ==
    CASE type = "BEQ" -> lhs = rhs
      [] type = "BNE" -> lhs # rhs
      [] type \in {"BLT", "BLTU"} -> ULt(lhs, rhs)
      [] type \in {"BGE", "BGEU"} -> UGe(lhs, rhs)
BranchTaken(type, lhs, rhs) ==
    CASE type = "BEQ" -> lhs = rhs
      [] type = "BNE" -> lhs # rhs
      [] type = "BLT" -> AsSigned(lhs) < AsSigned(rhs)
      [] type = "BGE" -> AsSigned(lhs) >= AsSigned(rhs)
      [] type = "BLTU" -> ULt(lhs, rhs)
      [] type = "BGEU" -> UGe(lhs, rhs)

ExecBranch(st, ins) ==
    IF BranchTaken(ins.type, st.regs[ins.rs1], st.regs[ins.rs2])
    THEN {[st EXCEPT !.pc = Add32(st.pc, ins.immediate)]}
    ELSE {[st EXCEPT !.pc = Add32(st.pc, Lit(4))]}

ExecLoad(st, ins) ==
    LET addr == Add32(st.regs[ins.rs1], ins.immediate)
    IN  CASE ins.type = "LB" ->
               IF CanReadByte(st.bus, addr)
               THEN {SetReg(st, ins.rd, SignExtend(ReadByte(st.bus, addr), 7))}
               ELSE {Throw(st, MemoryFault)}
          [] ins.type = "LH" ->
               IF CanReadHalf(st.bus, addr)
               THEN {SetReg(st, ins.rd, SignExtend(ReadHalf(st.bus, addr), 15))}
               ELSE {Throw(st, MemoryFault)}
          [] ins.type = "LW" ->
               IF CanReadWord(st.bus, addr)
               THEN {SetReg(st, ins.rd, ReadWord(st.bus, addr))}
               ELSE {Throw(st, MemoryFault)}
          [] ins.type = "LBU" ->
               IF CanReadByte(st.bus, addr)
               THEN {SetReg(st, ins.rd, ReadByte(st.bus, addr))}
               ELSE {Throw(st, MemoryFault)}
          [] ins.type = "LHU" ->
               IF CanReadHalf(st.bus, addr)
               THEN {SetReg(st, ins.rd, ReadHalf(st.bus, addr))}
               ELSE {Throw(st, MemoryFault)}

ExecStore(st, ins) ==
    LET addr == Add32(st.regs[ins.rs1], ins.immediate)
        value == st.regs[ins.rs2]
    IN  CASE ins.type = "SB" ->
               IF CanWriteByte(st.bus, addr)
               THEN {[st EXCEPT !.bus = WriteByte(st.bus, addr, value)]}
               ELSE {Throw(st, MemoryFault)}
          [] ins.type = "SH" ->
               IF CanWriteHalf(st.bus, addr)
               THEN {[st EXCEPT !.bus = WriteHalf(st.bus, addr, value)]}
               ELSE {Throw(st, MemoryFault)}
          [] ins.type = "SW" ->
               IF CanWriteWord(st.bus, addr)
               THEN {[st EXCEPT !.bus = WriteWord(st.bus, addr, value)]}
               ELSE {Throw(st, MemoryFault)}

BoolWord(cond) == IF cond THEN Lit(1) ELSE Lit(0)

ExecAluImm(st, ins) ==
    LET a == st.regs[ins.rs1]
        imm == ins.immediate
    IN  {SetReg(st, ins.rd,
            CASE ins.type = "ADDI" -> Add32(a, imm)
              [] ins.type = "SLTI" -> BoolWord(AsSigned(a) < AsSigned(imm))
              [] ins.type = "SLTIU" -> BoolWord(ULt(a, imm))
              [] ins.type = "XORI" -> Xor32(a, imm)
              [] ins.type = "ORI" -> Or32(a, imm)
              [] ins.type = "ANDI" -> And32(a, imm))}

\* The values SRAI / SRA compute for regs[rs1] = a shifted by amount:
\*   value = a >> amount; sign = -1U << amount;
\*   if (a & (1U << (32 - amount))) value |= sign;
\* With amount = 0 the test shifts a 32-bit 1 by 32, which is undefined:
\* the builds in use yield a mask of 1 (x86: the count is taken mod 32) or
\* of 0 (ARM).
SraOutcomes(a, amount) ==
    LET value == Shr32(a, amount)
        sign == Shl32(U32(65535, 65535), amount)
        tests == IF amount = 0 THEN {Bit32(a, 0) = 1, FALSE}
                 ELSE {Bit32(a, 32 - amount) = 1}
    IN  {IF t THEN Or32(value, sign) ELSE value : t \in tests}

ExecShiftImm(st, ins) ==
    LET a == st.regs[ins.rs1]
        amount == ins.rs2
    IN  CASE ins.type = "SLLI" -> {SetReg(st, ins.rd, Shl32(a, amount))}
          [] ins.type = "SRLI" -> {SetReg(st, ins.rd, Shr32(a, amount))}
          [] ins.type = "SRAI" ->
               {SetReg(st, ins.rd, v) : v \in SraOutcomes(a, amount)}

ExecAluReg(st, ins) ==
    LET a == st.regs[ins.rs1]
        b == st.regs[ins.rs2]
        amount == b[2] % 32
    IN  CASE ins.type = "ADD" -> {SetReg(st, ins.rd, Add32(a, b))}
          [] ins.type = "SUB" -> {SetReg(st, ins.rd, Sub32(a, b))}
          [] ins.type = "SLL" -> {SetReg(st, ins.rd, Shl32(a, amount))}
          [] ins.type = "SLT" ->
               {SetReg(st, ins.rd, BoolWord(AsSigned(a) < AsSigned(b)))}
          [] ins.type = "SLTU" -> {SetReg(st, ins.rd, BoolWord(ULt(a, b)))}
          [] ins.type = "XOR" -> {SetReg(st, ins.rd, Xor32(a, b))}
          [] ins.type = "SRL" -> {SetReg(st, ins.rd, Shr32(a, amount))}
          [] ins.type = "SRA" ->
               {SetReg(st, ins.rd, v) : v \in SraOutcomes(a, amount)}
          [] ins.type = "OR" -> {SetReg(st, ins.rd, Or32(a, b))}
          [] ins.type = "AND" -> {SetReg(st, ins.rd, And32(a, b))}

\* The ECALL handlers registered in ecall_handlers, by the value of a0.
\* A handler is the embedder's code: it is handed the register arrays by
\* reference, and the one here stores HandlerValue to x0 or to a0.
EcallNumbers == {Lit(0)}
HandlerValue == Lit(7)
HandlerTargets == {REG_ZERO, REG_A0}

ExecECALL(st, ins) ==
    IF st.regs[REG_A0] \notin EcallNumbers
    THEN {Throw(st, "called unknown ECall handler")}
    ELSE {SetReg(st, r, HandlerValue) : r \in HandlerTargets}

\* CSRRW, CSRRS, CSRRC and their immediate forms.
CsrNewValue(type, old, value) ==
    CASE type \in {"CSRRW", "CSRRWI"} -> value
      [] type \in {"CSRRS", "CSRRSI"} -> Or32(old, value)
      [] type \in {"CSRRC", "CSRRCI"} -> And32(old, Not32(value))

\* (ExecCsrReadFirst: the variant that takes regs[rs1] after rd is written.)
ExecCsrReadFirst(st, ins) ==
    LET csr == ToNat(ins.immediate)
        do_read == ins.rd # REG_ZERO
        read == ReadCSR(st, csr, FALSE)
        after_read == IF do_read THEN SetReg(st, ins.rd, read.value) ELSE st
        value == IF ins.type \in CsrRegTypes THEN after_read.regs[ins.rs1]
                 ELSE Lit(ins.rs1)
        do_write == ins.type \notin {"CSRRS", "CSRRC"} \/ ins.rs1 # REG_ZERO
        do_internal == ins.type \notin {"CSRRW", "CSRRWI"}
        internal == ReadCSR(after_read, csr, TRUE)
        write == WriteCSR(after_read, csr,
                          CsrNewValue(ins.type, internal.value, value))
    IN  IF do_read /\ read.err # "none" THEN {Throw(st, read.err)}
        ELSE IF ~do_write THEN {after_read}
        ELSE IF do_internal /\ internal.err # "none"
        THEN {Throw(after_read, internal.err)}
        ELSE IF write.err # "none" THEN {Throw(after_read, write.err)}
        ELSE {[after_read EXCEPT !.csrs = write.csrs]}
ExecCsr(st, ins) ==
    LET csr == ToNat(ins.immediate)
        value == IF ins.type \in CsrRegTypes THEN st.regs[ins.rs1]
                 ELSE Lit(ins.rs1)
        do_read == ins.rd # REG_ZERO
        read == ReadCSR(st, csr, FALSE)
        after_read == IF do_read THEN SetReg(st, ins.rd, read.value) ELSE st
        do_write == ins.type \notin {"CSRRS", "CSRRC"} \/ ins.rs1 # REG_ZERO
        do_internal == ins.type \notin {"CSRRW", "CSRRWI"}
        internal == ReadCSR(after_read, csr, TRUE)
        write == WriteCSR(after_read, csr,
                          CsrNewValue(ins.type, internal.value, value))
    IN  IF do_read /\ read.err # "none" THEN {Throw(st, read.err)}
        ELSE IF ~do_write THEN {after_read}
        ELSE IF do_internal /\ internal.err # "none"
        THEN {Throw(after_read, internal.err)}
        ELSE IF write.err # "none" THEN {Throw(after_read, write.err)}
        ELSE {[after_read EXCEPT !.csrs = write.csrs]}

ExecMul(st, ins) ==
    LET a == st.regs[ins.rs1]
        b == st.regs[ins.rs2]
    IN  {SetReg(st, ins.rd,
            CASE ins.type = "MUL" -> MulLow(a, b)
              [] ins.type = "MULH" -> MulHighS(a, b)
              [] ins.type = "MULHSU" -> MulHighSU(a, b)
              [] ins.type = "MULHU" -> MulHighU(a, b))}

\* What the process dies of when the host's divide instruction traps.
DivideTrap == "SIGFPE"

ExecDiv(st, ins) ==
    LET a == st.regs[ins.rs1]
        b == st.regs[ins.rs2]
        outcomes == CASE ins.type = "DIV" -> DivOutcomes(AsSigned(a), AsSigned(b))
                      [] ins.type = "REM" -> RemOutcomes(AsSigned(a), AsSigned(b))
                      [] ins.type = "DIVU" ->
                           {[trap |-> FALSE, value |-> UDiv(a, b)]}
                      [] ins.type = "REMU" ->
                           {[trap |-> FALSE, value |-> URem(a, b)]}
    IN  IF b = Lit(0)
        THEN {Throw(st, "Div by zero is not handled yet")}
        ELSE {IF o.trap THEN Throw(st, DivideTrap)
              ELSE SetReg(st, ins.rd, o.value) : o \in outcomes}

\* The hart id the bus is given: csrs[CSR_MHARTID].
HartId(st) == ToNat(st.csrs[CSR_MHARTID])

\* LR.W that reserves for hart 0 whichever hart executes it.
ExecLRHartZero(st, ins) ==
    LET addr == st.regs[ins.rs1]
        got == ReadWordReserved(st.bus, addr, 0)
    IN  IF ins.rs2 # 0 THEN {InvalidInstruction(st)}
        ELSE IF ~CanReadWord(st.bus, addr) THEN {Throw(st, MemoryFault)}
        ELSE {[st EXCEPT !.regs[ins.rd] = got.value, !.bus = got.bus]}
ExecLR(st, ins) ==
    LET addr == st.regs[ins.rs1]
        got == ReadWordReserved(st.bus, addr, HartId(st))
    IN  IF ins.rs2 # 0 THEN {InvalidInstruction(st)}
        ELSE IF ~CanReadWord(st.bus, addr) THEN {Throw(st, MemoryFault)}
        ELSE {[st EXCEPT !.regs[ins.rd] = got.value, !.bus = got.bus]}

\* SC.W with the two results exchanged.
ExecSCSwapped(st, ins) ==
    LET addr == st.regs[ins.rs1]
        got == WriteWordConditional(st.bus, addr, st.regs[ins.rs2], HartId(st))
    IN  IF ~CanWriteWord(st.bus, addr) THEN {Throw(st, MemoryFault)}
        ELSE {[st EXCEPT !.regs[ins.rd] = IF got.success THEN Lit(1) ELSE Lit(0),
                         !.bus = got.bus]}
ExecSC(st, ins) ==
    LET addr == st.regs[ins.rs1]
        got == WriteWordConditional(st.bus, addr, st.regs[ins.rs2], HartId(st))
    IN  IF ~CanWriteWord(st.bus, addr) THEN {Throw(st, MemoryFault)}
        ELSE {[st EXCEPT !.regs[ins.rd] = IF got.success THEN Lit(0) ELSE Lit(1),
                         !.bus = got.bus]}

ExecAmo(st, ins) ==
    LET addr == st.regs[ins.rs1]
        got == Atomic(st.bus, ins.type, addr, st.regs[ins.rs2])
    IN  IF ~CanWriteWord(st.bus, addr) THEN {Throw(st, MemoryFault)}
        ELSE {[st EXCEPT !.regs[ins.rd] = got.value, !.bus = got.bus]}

\* CUST_TVA translating the value of rd in place of that of rs1.
ExecTVAOfRd(st, ins) ==
    LET got == TranslateMemoryAddress(st, st.regs[ins.rd], FALSE)
    IN  IF got.err # "none" THEN {Throw(st, got.err)}
        ELSE {SetReg(st, ins.rd, got.value)}

\* CUST_TVA translating for a write access.
ExecTVAWrite(st, ins) ==
    LET got == TranslateMemoryAddress(st, st.regs[ins.rs1], TRUE)
    IN  IF got.err # "none" THEN {Throw(st, got.err)}
        ELSE {SetReg(st, ins.rd, got.value)}

ExecTVA(st, ins) ==
    LET got == TranslateMemoryAddress(st, st.regs[ins.rs1], FALSE)
    IN  IF got.err # "none" THEN {Throw(st, got.err)}
        ELSE {SetReg(st, ins.rd, got.value)}

\* ------------------------------------------------------------------------
\* Step's dispatch, F and D extensions
\* ------------------------------------------------------------------------

\* Assignment to the members f / u32 (the low word; the high word stays),
\* and to d / u64.
WithLow(old, word) == <<old[1], word>>

CanonicalNaN(type) == IF IsDoubleType(type) THEN RV_F64_NAN ELSE RV_F32_NAN

\* What a host conversion or square root can deliver for the type.
HostResults(type, old) ==
    IF IsDoubleType(type) THEN HostF64 ELSE {WithLow(old, w) : w \in HostF32}

\* What a host arithmetic expression can deliver for the type, with the
\* exception flags it raises: an exact +0, an inexact -1, an invalid
\* operation, a division by zero, an overflow and an underflow.
HostArith(type, old) ==
    LET zero == IF IsDoubleType(type) THEN <<Lit(0), Lit(0)>>
                ELSE WithLow(old, Lit(0))
        one == IF IsDoubleType(type) THEN <<U32(49136, 0), Lit(0)>>
               ELSE WithLow(old, U32(49024, 0))
        inf == IF IsDoubleType(type) THEN <<U32(32752, 0), Lit(0)>>
               ELSE WithLow(old, U32(32640, 0))
    IN  {[except |-> {}, result |-> zero],
         [except |-> {"FE_INEXACT"}, result |-> one],
         [except |-> {"FE_INVALID"}, result |-> CanonicalNaN(type)],
         [except |-> {"FE_DIVBYZERO"}, result |-> inf],
         [except |-> {"FE_OVERFLOW", "FE_INEXACT"}, result |-> inf],
         [except |-> {"FE_UNDERFLOW", "FE_INEXACT"}, result |-> zero]}

\* The host's < and == on two values neither of which is a NaN (IEEE 754:
\* the two zeros are equal, otherwise sign then magnitude).
Mag(type, v) ==
    IF IsDoubleType(type) THEN <<And32(v[1], U32(32767, 65535)), v[2]>>
    ELSE <<Lit(0), And32(v[2], U32(32767, 65535))>>

MagLt(x, y) == ULt(x[1], y[1]) \/ (x[1] = y[1] /\ ULt(x[2], y[2]))

HostEqual(type, a, b) ==
    LET ma == Mag(type, a)
        mb == Mag(type, b)
        zero == <<Lit(0), Lit(0)>>
    IN  \/ ma = zero /\ mb = zero
        \/ ma = mb /\ Class(type, a).is_neg = Class(type, b).is_neg

HostLess(type, a, b) ==
    LET ma == Mag(type, a)
        mb == Mag(type, b)
        zero == <<Lit(0), Lit(0)>>
        na == Class(type, a).is_neg
        nb == Class(type, b).is_neg
    IN  IF ma = zero /\ mb = zero THEN FALSE
        ELSE IF na # nb THEN na
        ELSE IF na THEN MagLt(mb, ma) ELSE MagLt(ma, mb)

\* FMADD, FMSUB, FNMSUB, FNMADD (.S and .D).
ExecFma(st, ins) ==
    LET lhs_is_inf == Class(ins.type, st.fregs[ins.rs1]).is_inf
        rhs_is_zero == Class(ins.type, st.fregs[ins.rs2]).is_zero
    IN  IF lhs_is_inf /\ rhs_is_zero THEN {InvalidInstruction(st)}
        ELSE {LET chk == CheckFloatErrors(st.csrs, host.except)
              IN  [st EXCEPT !.csrs = chk.csrs,
                             !.fregs[ins.rd] =
                                 IF chk.failed THEN CanonicalNaN(ins.type)
                                 ELSE host.result] :
              host \in HostArith(ins.type, st.fregs[ins.rd])}

\* FADD, FSUB, FMUL, FDIV (.S and .D).
ExecFArith(st, ins) ==
    {LET chk == CheckFloatErrors(st.csrs, host.except)
     IN  [st EXCEPT !.csrs = chk.csrs,
                    !.fregs[ins.rd] =
                        IF chk.failed THEN CanonicalNaN(ins.type)
                        ELSE host.result] :
     host \in HostArith(ins.type, st.fregs[ins.rd])}

ExecFSqrt(st, ins) ==
    LET c == Class(ins.type, st.fregs[ins.rs1])
    IN  IF c.is_inf \/ c.is_nan \/ c.is_qnan \/ c.is_neg
        THEN {SetFreg(st, ins.rd, CanonicalNaN(ins.type))}
        ELSE {SetFreg(st, ins.rd, result) :
              result \in HostResults(ins.type, st.fregs[ins.rd])}

\* FSGNJ, FSGNJN, FSGNJX: the sign bit is bit 31 of the low word (.S) or
\* of the high word (.D); everything else is copied from rs1.
ExecFSgnj(st, ins) ==
    LET lhs == st.fregs[ins.rs1]
        rhs == st.fregs[ins.rs2]
        k == IF IsDoubleType(ins.type) THEN 1 ELSE 2
        sign_bit == U32(32768, 0)
        rhs_sign == And32(rhs[k], sign_bit)
        word == CASE ins.type \in {"FSGNJ_S", "FSGNJ_D"} ->
                       Or32(And32(lhs[k], Not32(sign_bit)), rhs_sign)
                  [] ins.type \in {"FSGNJN_S", "FSGNJN_D"} ->
                       Or32(And32(lhs[k], Not32(sign_bit)),
                            Xor32(rhs_sign, sign_bit))
                  [] ins.type \in {"FSGNJX_S", "FSGNJX_D"} ->
                       Xor32(lhs[k], rhs_sign)
    IN  {SetFreg(st, ins.rd, [lhs EXCEPT ![k] = word])}

ExecFMinMax(st, ins) ==
    LET lhs == st.fregs[ins.rs1]
        rhs == st.fregs[ins.rs2]
        cl == Class(ins.type, lhs)
        cr == Class(ins.type, rhs)
        lhs_nan == cl.is_nan \/ cl.is_qnan
        rhs_nan == cr.is_nan \/ cr.is_qnan
        flagged == SetFloatFlags(st.csrs, TRUE, FALSE, FALSE, FALSE, FALSE)
        lhs_less == IF lhs_nan THEN FALSE
                    ELSE IF rhs_nan THEN TRUE
                    ELSE IF cl.is_neg /\ ~cr.is_neg THEN TRUE
                    ELSE IF ~cl.is_neg /\ cr.is_neg THEN FALSE
                    ELSE HostLess(ins.type, lhs, rhs)
        is_min == ins.type \in {"FMIN_S", "FMIN_D"}
        pick_lhs == IF is_min THEN lhs_less ELSE ~lhs_less
    IN  IF lhs_nan /\ rhs_nan
        THEN {[st EXCEPT !.csrs = flagged,
                         !.fregs[ins.rd] = CanonicalNaN(ins.type)]}
        ELSE {[st EXCEPT !.csrs = IF lhs_nan \/ rhs_nan THEN flagged
                                  ELSE st.csrs,
                         !.fregs[ins.rd] = IF pick_lhs THEN lhs ELSE rhs]}

\* What the host's conversion of a non-zero finite value to int32_t /
\* uint32_t can deliver, with whether it was inexact.
HostInts == {Lit(1), U32(32768, 0)}

\* FCVT.W.S, FCVT.WU.S, FCVT.W.D, FCVT.WU.D.
ExecFCvtToInt(st, ins) ==
    LET c == Class(ins.type, st.fregs[ins.rs1])
        signed == ins.type \in {"FCVT_W_S", "FCVT_W_D"}
        all_ones == U32(65535, 65535)
        int_max == U32(32767, 65535)
        inexact == SetFloatFlags(st.csrs, FALSE, FALSE, FALSE, FALSE, TRUE)
    IN  IF c.is_inf
        THEN {[st EXCEPT !.csrs = inexact,
                         !.regs[ins.rd] =
                             IF signed
                             THEN (IF c.is_neg THEN all_ones ELSE int_max)
                             ELSE (IF c.is_neg THEN Lit(0) ELSE all_ones)]}
        ELSE IF c.is_nan \/ c.is_qnan
        THEN {[st EXCEPT !.csrs = inexact,
                         !.regs[ins.rd] = IF signed THEN int_max
                                          ELSE all_ones]}
        ELSE IF c.is_zero THEN {SetReg(st, ins.rd, Lit(0))}
        ELSE {[st EXCEPT !.csrs = IF lossy THEN inexact ELSE st.csrs,
                         !.regs[ins.rd] = val] :
              val \in HostInts, lossy \in BOOLEAN}

\* FEQ, FLT, FLE (.S and .D).
ExecFCmp(st, ins) ==
    LET lhs == st.fregs[ins.rs1]
        rhs == st.fregs[ins.rs2]
        cl == Class(ins.type, lhs)
        cr == Class(ins.type, rhs)
        signalling == cl.is_nan \/ cr.is_nan
        any_nan == signalling \/ cl.is_qnan \/ cr.is_qnan
        is_eq == ins.type \in {"FEQ_S", "FEQ_D"}
        flagged == SetFloatFlags(st.csrs, TRUE, FALSE, FALSE, FALSE, FALSE)
        holds == CASE is_eq -> HostEqual(ins.type, lhs, rhs)
                   [] ins.type \in {"FLT_S", "FLT_D"} ->
                        HostLess(ins.type, lhs, rhs)
                   [] ins.type \in {"FLE_S", "FLE_D"} ->
                        HostLess(ins.type, lhs, rhs)
                        \/ HostEqual(ins.type, lhs, rhs)
    IN  IF any_nan
        THEN {[st EXCEPT !.csrs = IF is_eq /\ ~signalling THEN st.csrs
                                  ELSE flagged,
                         !.regs[ins.rd] = Lit(0)]}
        ELSE {SetReg(st, ins.rd, BoolWord(holds))}

ExecFClass(st, ins) ==
    {SetReg(st, ins.rd, ClassMask(Class(ins.type, st.fregs[ins.rs1])))}

\* FCVT.S.W, FCVT.S.WU, FCVT.D.W, FCVT.D.WU.  The comparison that follows
\* the conversion converts the integer again and never differs.
ExecFCvtFromInt(st, ins) ==
    LET old == st.fregs[ins.rd]
        zero == IF IsDoubleType(ins.type) THEN <<Lit(0), Lit(0)>>
                ELSE WithLow(old, Lit(0))
    IN  IF st.regs[ins.rs1] = Lit(0) THEN {SetFreg(st, ins.rd, zero)}
        ELSE {SetFreg(st, ins.rd, result) :
              result \in HostResults(ins.type, old)}

\* FCVT.S.D and FCVT.D.S.
ExecFCvtFloat(st, ins) ==
    IF ins.type = "FCVT_S_D"
    THEN LET c == ClassF64(st.fregs[ins.rs1])
         IN  IF c.is_nan THEN {SetFreg(st, ins.rd, RV_F32_NAN)}
             ELSE IF c.is_qnan THEN {SetFreg(st, ins.rd, RV_F32_QNAN)}
             ELSE {SetFreg(st, ins.rd, <<Lit(0), w>>) : w \in HostF32}
    ELSE LET c == ClassF32(st.fregs[ins.rs1])
         IN  IF c.is_nan THEN {SetFreg(st, ins.rd, RV_F64_NAN)}
             ELSE IF c.is_qnan THEN {SetFreg(st, ins.rd, RV_F64_QNAN)}
             ELSE {SetFreg(st, ins.rd, d) : d \in HostF64}

\* The lambda ToFloat fills member f of a local Float and leaves the other
\* 32 bits of the union as they were on the stack.
StackWords == {Lit(0), U32(65535, 65535)}

\* FMV.X.W, FMV.W.X, FLW, FSW, FLD, FSD.
ExecFMove(st, ins) ==
    LET addr == Add32(st.regs[ins.rs1], ins.immediate)
        next == Add32(addr, Lit(4))
        val == st.fregs[ins.rs2]
    IN  CASE ins.type = "FMV_X_W" ->
               {SetReg(st, ins.rd, st.fregs[ins.rs1][2])}
          [] ins.type = "FMV_W_X" ->
               {SetFreg(st, ins.rd, <<Lit(0), st.regs[ins.rs1]>>)}
          [] ins.type = "FLW" ->
               IF ~CanReadWord(st.bus, addr) THEN {Throw(st, MemoryFault)}
               ELSE {SetFreg(st, ins.rd, <<hi, ReadWord(st.bus, addr)>>) :
                     hi \in StackWords}
          [] ins.type = "FSW" ->
               IF ~CanWriteWord(st.bus, addr) THEN {Throw(st, MemoryFault)}
               ELSE {[st EXCEPT !.bus = WriteWord(st.bus, addr, val[2])]}
          [] ins.type = "FLD" ->
               IF ~CanReadWord(st.bus, addr) \/ ~CanReadWord(st.bus, next)
               THEN {Throw(st, MemoryFault)}
               ELSE {SetFreg(st, ins.rd, <<ReadWord(st.bus, next),
                                           ReadWord(st.bus, addr)>>)}
          [] ins.type = "FSD" ->
               IF ~CanWriteWord(st.bus, addr) THEN {Throw(st, MemoryFault)}
               ELSE IF ~CanWriteWord(st.bus, next)
               THEN {Throw([st EXCEPT !.bus = WriteWord(st.bus, addr, val[2])],
                           MemoryFault)}
               ELSE {[st EXCEPT !.bus =
                         WriteWord(WriteWord(st.bus, addr, val[2]),
                                   next, val[1])]}

FMoveTypes == {"FMV_X_W", "FMV_W_X", "FLW", "FSW", "FLD", "FSD"}

FloatBody(st, ins) ==
    CASE ins.type \in FmaTypes -> ExecFma(st, ins)
      [] ins.type \in FArithTypes -> ExecFArith(st, ins)
      [] ins.type \in FSqrtTypes -> ExecFSqrt(st, ins)
      [] ins.type \in FSgnjTypes -> ExecFSgnj(st, ins)
      [] ins.type \in FMinMaxTypes -> ExecFMinMax(st, ins)
      [] ins.type \in FCvtToIntTypes -> ExecFCvtToInt(st, ins)
      [] ins.type \in FCmpTypes -> ExecFCmp(st, ins)
      [] ins.type \in FClassTypes -> ExecFClass(st, ins)
      [] ins.type \in FCvtFromIntTypes -> ExecFCvtFromInt(st, ins)
      [] ins.type \in FCvtFloatTypes -> ExecFCvtFloat(st, ins)
      [] ins.type \in FMoveTypes -> ExecFMove(st, ins)

FloatTypes ==
    FmaTypes \cup FArithTypes \cup FSqrtTypes \cup FSgnjTypes
    \cup FMinMaxTypes \cup FCvtToIntTypes \cup FCmpTypes \cup FClassTypes
    \cup FCvtFromIntTypes \cup FCvtFloatTypes \cup FMoveTypes

\* ChangeRoundingMode calling itself without end has no defined
\* behaviour: the process dies of the stack overflow, or, the call
\* compiled as a jump, the function loops for ever.
StackOverflow == "SIGSEGV"
NeverReturns == "no return"

\* A float case: first, for the types that have it,
\* `if (!ChangeRoundingMode(instr.rm)) InvalidInstruction();`.
ExecFloat(st, ins) ==
    LET mode == ChangeRoundingMode(st.csrs, ins.rm)
        st1 == [st EXCEPT !.csrs = RoundingCsrs(st.csrs, ins.rm)]
    IN  IF ins.type \notin RoundedTypes THEN FloatBody(st, ins)
        ELSE IF mode = "invalid" THEN {InvalidInstruction(st1)}
        ELSE IF mode = "overflow"
        THEN {Throw(st1, StackOverflow), Throw(st1, NeverReturns)}
        ELSE FloatBody(st1, ins)

\* A privileged return that lowers the level to User.
ExecReturnToUser(st, ins) == {[st EXCEPT !.privilege_level = "User"]}

\* URET, SRET, MRET, WFI and the supervisor fences: every case throws.
ExecNotImplemented(st, ins) == {Throw(st, "Instruction not implemented")}

\* ------------------------------------------------------------------------
\* One iteration of Step's loop
\* ------------------------------------------------------------------------

\* The switch on instr.type.
Dispatch(st, ins) ==
    CASE ins.type = "LUI" -> ExecLUI(st, ins)
      [] ins.type = "AUIPC" -> ExecAUIPC(st, ins)
      [] ins.type = "JAL" -> ExecJAL(st, ins)
      [] ins.type = "JALR" -> ExecJALR(st, ins)
      [] ins.type \in BranchTypes -> ExecBranch(st, ins)
      [] ins.type \in LoadTypes -> ExecLoad(st, ins)
      [] ins.type \in StoreTypes -> ExecStore(st, ins)
      [] ins.type \in AluImmTypes -> ExecAluImm(st, ins)
      [] ins.type \in ShiftImmTypes -> ExecShiftImm(st, ins)
      [] ins.type \in AluRegTypes -> ExecAluReg(st, ins)
      [] ins.type \in {"FENCE", "EBREAK"} -> {st}
      [] ins.type = "ECALL" -> ExecECALL(st, ins)
      [] ins.type \in CsrTypes -> ExecCsr(st, ins)
      [] ins.type \in MulTypes -> ExecMul(st, ins)
      [] ins.type \in DivTypes -> ExecDiv(st, ins)
      [] ins.type = "LR_W" -> ExecLR(st, ins)
      [] ins.type = "SC_W" -> ExecSC(st, ins)
      [] ins.type \in AmoTypes -> ExecAmo(st, ins)
      [] ins.type \in FloatTypes -> ExecFloat(st, ins)
      [] ins.type \in NotImplementedTypes -> ExecNotImplemented(st, ins)
      [] ins.type = "CUST_TVA" -> ExecTVA(st, ins)
      [] ins.type = "INVALID" -> {InvalidInstruction(st)}

\* The second switch: every type but the jumps and branches adds 4 to pc.
PcAdvanceNever(st, ins) == st
PcAdvance(st, ins) ==
    IF ins.type \in JumpTypes \cup BranchTypes THEN st
    ELSE [st EXCEPT !.pc = Add32(st.pc, Lit(4))]

\* if (instr.rd == 0) regs[instr.rd] = 0;
ZeroResetNever(st, ins) == st
ZeroReset(st, ins) ==
    IF ins.rd = 0 THEN [st EXCEPT !.regs[ins.rd] = Lit(0)] ELSE st

\* cycles++
CyclesTwice(c) == c + 2
CyclesNext(c) == c + 1

\* Everything between the decode and the breakpoint test: the views an
\* iteration that decoded ins can leave.  A case that throws leaves the
\* loop at once.
Execute(st, ins) ==
    {IF o.err # "none" THEN o ELSE ZeroReset(PcAdvance(o, ins), ins) :
     o \in Dispatch(st, ins)}

\* ------------------------------------------------------------------------
\* Construction
\* ------------------------------------------------------------------------

\* The CSRs the constructor populates before it calls Setup.
ConstructorCsrs(hart_id) ==
    (CSR_MVENDORID :> Lit(0)) @@ (CSR_MARCHID :> MARCHID_VALUE)
    @@ (CSR_MIMPID :> MIMPID_VALUE) @@ (CSR_MHARTID :> Lit(hart_id))
    @@ (CSR_MISA :> MISA_VALUE)

\* The CSRs Setup stores 0 to.
SetupCsrs ==
    {CSR_FRM, CSR_CYCLE, CSR_TIME, CSR_INSTRET, CSR_CYCLEH, CSR_TIMEH,
     CSR_INSTRETH, CSR_SSTATUS, CSR_SIE, CSR_STVEC, CSR_SCOUNTEREN,
     CSR_SENVCFG, CSR_SSCRATCH, CSR_SEPC, CSR_SCAUSE, CSR_STVAL, CSR_SIP,
     CSR_SATP, CSR_SCONTEXT, CSR_MSTATUS}

\* Setup's effect on the CSR map.
Setup(map) ==
    [c \in (DOMAIN map) \cup SetupCsrs |->
        IF c \in SetupCsrs THEN Lit(0) ELSE map[c]]

ZeroRegs == [r \in 0..(REGISTER_COUNT - 1) |-> Lit(0)]
ZeroFregs == [r \in 0..(REGISTER_COUNT - 1) |-> <<Lit(0), Lit(0)>>]

\* csr_mapped_memory->time as the constructor seeds it from the clock.
TimeSeed == <<Lit(1), Lit(5)>>

\* csr_mapped_memory->time_cmp as the guest has left it.
TimeCmpSeed == <<Lit(1), Lit(7)>>

\* No call of GetSnapshot is in progress and none has returned.
NoSnapshot ==
    [at |-> "none", registers |-> ZeroRegs, fregisters |-> ZeroFregs,
     pc |-> Lit(0), seen |-> {}]

\* The break-point sets a debugger has installed.
BreakPointSets == {{}, {Lit(StartPc + 4)}}

\* No instruction decoded yet.
NoInstr == Instr("NONE", 0, 0, 0, 0, Lit(0), 0)

\* The view of hart h the operators above work on.
View(h) ==
    [regs |-> regs[h], fregs |-> fregs[h], pc |-> pc[h], csrs |-> csrs[h],
     privilege_level |-> privilege_level[h], cycles |-> cycles[h],
     time |-> time[h], bus |-> [bytes |-> memory, resv |-> reservation],
     err |-> "none"]

\* The state after every hart is constructed with starting_pc on one
\* bus; r0 and f0 are the register files, level the privilege level, bytes
\* the RAM and points the break-point sets the specification starts from.
InitAt(starting_pc, r0, f0, level, bytes, points) ==
    /\ regs = [h \in Harts |-> r0]
    /\ fregs = [h \in Harts |-> f0]
    /\ pc = [h \in Harts |-> starting_pc]
    /\ csrs = [h \in Harts |-> Setup(ConstructorCsrs(h))]
    /\ privilege_level = [h \in Harts |-> level]
    /\ cycles = [h \in Harts |-> 0]
    /\ ticks = [h \in Harts |-> 0]
    /\ running = [h \in Harts |-> FALSE]
    /\ \E bp \in points : break_points = [h \in Harts |-> bp]
    /\ time = [h \in Harts |-> TimeSeed]
    /\ memory = bytes
    /\ reservation = [h \in Harts |-> NoReservation]
    /\ ctl = [h \in Harts |-> "idle"]
    /\ paused = [h \in Harts |-> FALSE]
    /\ pause_on_break = [h \in Harts |-> FALSE]
    /\ loop = [h \in Harts |-> "out"]
    /\ snapshot = [h \in Harts |-> NoSnapshot]
    /\ history_delta = [h \in Harts |-> <<>>]
    /\ history_tick = [h \in Harts |-> <<>>]
    /\ time_cmp = [h \in Harts |-> TimeCmpSeed]
    /\ steps = [h \in Harts |-> 0]
    /\ i = [h \in Harts |-> 0]
    /\ instr = [h \in Harts |-> NoInstr]
    /\ before = [h \in Harts |->
                   [regs |-> r0, fregs |-> f0, pc |-> starting_pc,
                    csrs |-> Setup(ConstructorCsrs(h)),
                    privilege_level |-> level, cycles |-> 0,
                    time |-> TimeSeed,
                    bus |-> [bytes |-> bytes,
                             resv |-> [k \in Harts |-> NoReservation]],
                    err |-> "none"]]
    /\ err = [h \in Harts |-> "none"]
    /\ ret = [h \in Harts |-> FALSE]
    /\ entry_cycles = [h \in Harts |-> 0]
    /\ log = <<>>

\* The harts constructed with starting_pc = StartPc.
InitWith(r0, f0, level, bytes, points) ==
    InitAt(Lit(StartPc), r0, f0, level, bytes, points)

ZeroRam == [a \in RamAddrs |-> 0]

Init == InitWith(ZeroRegs, ZeroFregs, "Machine", ZeroRam, BreakPointSets)

\* ------------------------------------------------------------------------
\* The actions
\* ------------------------------------------------------------------------

\* The fetch succeeds where the code image or the RAM holds a word.
Fetchable(bus, addr) ==
    \/ addr[1] = 0 /\ addr[2] >= StartPc /\ addr[2] < RamBase
    \/ addr[1] = 65535
    \/ CanReadWord(bus, addr)

\* The addresses of the code image whose word decodes to EBREAK.
EbreakWords == {Lit(StartPc + 8)}

\* IsBreakPoint(addr): PeekWord(addr) delivers a word that decodes to
\* EBREAK at the addresses of EbreakWords.
\* (IsBreakPointSetOnly: the variant that never looks at the word.)
IsBreakPointSetOnly(points, addr) == addr \in points
IsBreakPoint(points, addr) == addr \in points \/ addr \in EbreakWords

\* The errors that end the process rather than throw.
Crashes == {DivideTrap, StackOverflow}

\* The embedder starts and stops the hart: the running flag.
Start(h) ==
    /\ ~running[h]
    /\ ctl[h] = "idle"
    /\ running' = [running EXCEPT ![h] = TRUE]
    /\ UNCHANGED <<regs, fregs, pc, csrs, privilege_level, cycles, ticks,
                   break_points, time, memory, reservation, ctl, steps, i,
                   instr, before, err, ret, entry_cycles, log>>

Stop(h) ==
    /\ running[h]
    /\ running' = [running EXCEPT ![h] = FALSE]
    /\ UNCHANGED <<regs, fregs, pc, csrs, privilege_level, cycles, ticks,
                   break_points, time, memory, reservation, ctl, steps, i,
                   instr, before, err, ret, entry_cycles, log>>

\* Step reporting the breakpoint its pc is at on entry, before its loop.
StepBeginAtBreak(h, n, budget) ==
    /\ ctl[h] = "idle"
    /\ ticks[h] + n <= budget
    /\ ticks' = [ticks EXCEPT ![h] = ticks[h] + n]
    /\ steps' = [steps EXCEPT ![h] = n]
    /\ i' = [i EXCEPT ![h] = 0]
    /\ entry_cycles' = [entry_cycles EXCEPT ![h] = cycles[h]]
    /\ IF IsBreakPoint(break_points[h], pc[h])
       THEN ret' = [ret EXCEPT ![h] = TRUE] /\ UNCHANGED ctl
       ELSE ctl' = [ctl EXCEPT ![h] = "step"] /\ UNCHANGED ret
    /\ UNCHANGED <<regs, fregs, pc, csrs, privilege_level, cycles, running,
                   break_points, time, memory, reservation, instr, before,
                   err, log>>

\* Step(n) is entered: ticks += steps, and the loop starts with i = 0.
\* The hart is asked for at most budget instructions in all.
StepBegin(h, n, budget) ==
    /\ ctl[h] = "idle"
    /\ ticks[h] + n <= budget
    /\ ticks' = [ticks EXCEPT ![h] = ticks[h] + n]
    /\ steps' = [steps EXCEPT ![h] = n]
    /\ i' = [i EXCEPT ![h] = 0]
    /\ entry_cycles' = [entry_cycles EXCEPT ![h] = cycles[h]]
    /\ ctl' = [ctl EXCEPT ![h] = "step"]
    /\ UNCHANGED <<regs, fregs, pc, csrs, privilege_level, cycles, running,
                   break_points, time, memory, reservation, instr, before,
                   err, ret, log>>

\* What one iteration does to the view st (cycles++ already applied) when
\* the program offers the instructions prog: [ins, out].
Iterate(st, prog) ==
    IF st.pc[2] % 4 # 0
    THEN {[ins |-> NoInstr, out |-> Throw(st, "Invalid PC address")]}
    ELSE IF ~Fetchable(st.bus, st.pc)
    THEN {[ins |-> NoInstr, out |-> Throw(st, MemoryFault)]}
    ELSE UNION {{[ins |-> ins, out |-> o] : o \in Execute(st, ins)} :
                ins \in {x \in prog : (x.type = "EBREAK")
                                         = (st.pc \in EbreakWords)}}

\* The instructions whose access to the bus is recorded in log.
BusEventTypes ==
    {"LR_W", "SC_W", "FSW", "FSD"} \cup StoreTypes \cup AmoTypes

\* The record of the access instruction ins of hart h made, st being the
\* view before it and out the view after: the address, regs[rs2] as it
\* was, regs[rd] as it is, the word of the bus at the address afterwards,
\* and whether every byte of the bus is as it was.
Event(h, st, ins, out) ==
    LET addr == IF ins.type \in {"LR_W", "SC_W"} \cup AmoTypes
                THEN st.regs[ins.rs1]
                ELSE Add32(st.regs[ins.rs1], ins.immediate)
    IN  [hart |-> h, type |-> ins.type, addr |-> addr,
         value |-> st.regs[ins.rs2], result |-> out.regs[ins.rd],
         word |-> PeekWord(out.bus, Granule(addr))[1],
         kept |-> out.bus.bytes = st.bus.bytes]

\* One iteration of the loop of Step, to the breakpoint test that ends it.
StepInstr(h, prog) ==
    /\ ctl[h] = "step"
    /\ i[h] < steps[h]
    /\ running[h]
    /\ \E it \in Iterate([View(h) EXCEPT !.cycles = CyclesNext(cycles[h])],
                         prog) :
         /\ before' = [before EXCEPT ![h] = View(h)]
         /\ instr' = [instr EXCEPT ![h] = it.ins]
         /\ regs' = [regs EXCEPT ![h] = it.out.regs]
         /\ fregs' = [fregs EXCEPT ![h] = it.out.fregs]
         /\ pc' = [pc EXCEPT ![h] = it.out.pc]
         /\ csrs' = [csrs EXCEPT ![h] = it.out.csrs]
         /\ privilege_level' =
               [privilege_level EXCEPT ![h] = it.out.privilege_level]
         /\ cycles' = [cycles EXCEPT ![h] = it.out.cycles]
         /\ memory' = it.out.bus.bytes
         /\ reservation' = it.out.bus.resv
         /\ err' = [err EXCEPT ![h] = it.out.err]
         /\ log' = IF it.ins.type \in BusEventTypes /\ it.out.err = "none"
                   THEN Append(log, Event(h, View(h), it.ins, it.out))
                   ELSE log
         /\ IF it.out.err # "none"
            THEN /\ ctl' = [ctl EXCEPT ![h] =
                              IF it.out.err \in Crashes THEN "crash"
                              ELSE IF it.out.err = NeverReturns THEN "hang"
                              ELSE "fault"]
                 /\ UNCHANGED <<i, ret>>
            ELSE IF IsBreakPoint(break_points[h], it.out.pc)
            THEN /\ ret' = [ret EXCEPT ![h] = TRUE]
                 /\ ctl' = [ctl EXCEPT ![h] = "idle"]
                 /\ UNCHANGED i
            ELSE /\ i' = [i EXCEPT ![h] = i[h] + 1]
                 /\ UNCHANGED <<ret, ctl>>
    /\ UNCHANGED <<ticks, running, break_points, time, steps, entry_cycles>>

\* The loop condition fails: return false.
StepEnd(h) ==
    /\ ctl[h] = "step"
    /\ ~(i[h] < steps[h] /\ running[h])
    /\ ret' = [ret EXCEPT ![h] = FALSE]
    /\ ctl' = [ctl EXCEPT ![h] = "idle"]
    /\ UNCHANGED <<regs, fregs, pc, csrs, privilege_level, cycles, ticks,
                   running, break_points, time, memory, reservation, steps,
                   i, instr, before, err, entry_cycles, log>>

\* ------------------------------------------------------------------------
\* The program: what the decoder hands Step.  The code image and the
\* decoder are inputs of Step, so a fetch delivers any instruction of the
\* program the specification runs.
\* ------------------------------------------------------------------------

\* The operand fields the instructions of a type are given.
Rds(t) ==
    IF t \in {"LUI", "ADDI", "JAL", "JALR", "LW", "CSRRW", "CSRRS", "SC_W",
              "DIV", "FMV_W_X", "FCLASS_S"}
    THEN {0, 1} ELSE {0}
Rs1s(t) == IF t \in {"CSRRW", "CSRRS", "CSRRWI"} THEN {0, 1} ELSE {1}
Rs2s(t) ==
    IF t \in BranchTypes \cup ShiftImmTypes \cup {"LR_W"} THEN {0, 1}
    ELSE {1}
Imms(t) ==
    CASE t \in {"LUI", "AUIPC"} -> {Lit(RamBase)}
      [] t = "JAL" -> {Lit(8), Sub32(U32(65535, 65532), Lit(StartPc))}
      [] t \in {"JALR"} \cup BranchTypes -> {Lit(8)}
      [] t \in CsrTypes -> {Lit(CSR_SSCRATCH), Lit(CSR_FCSR)}
      [] t \in {"FLD", "FSD"} -> {Lit(0), Lit(4)}
      [] t \in AluImmTypes -> {Lit(5)}
      [] OTHER -> {Lit(0)}
Rms(t) ==
    IF t \notin RoundedTypes THEN {RM_ROUND_TO_NEAREST_TIES_EVEN}
    ELSE IF t \in {"FADD_S", "FCVT_W_D"}
    THEN {RM_ROUND_TO_NEAREST_TIES_EVEN, RM_INVALID0, RM_DYNAMIC}
    ELSE {RM_ROUND_TO_NEAREST_TIES_EVEN}

InstrsOf(t) ==
    {Instr(t, rd, rs1, rs2, 1, imm, rm) :
     rd \in Rds(t), rs1 \in Rs1s(t), rs2 \in Rs2s(t), imm \in Imms(t),
     rm \in Rms(t)}

Program == UNION {InstrsOf(t) : t \in AllTypes}

\* ------------------------------------------------------------------------
\* One hart from reset, running the whole instruction set
\* ------------------------------------------------------------------------

MainHart == 0

\* Hart h is driven through the program prog by calls Step(0..most).
Run(h, prog, most, budget) ==
    \/ Start(h) /\ UNCHANGED outside
    \/ Stop(h) /\ UNCHANGED outside
    \/ (\E n \in 0..most : StepBegin(h, n, budget)) /\ UNCHANGED outside
    \/ StepInstr(h, prog) /\ UNCHANGED outside
    \/ StepEnd(h) /\ UNCHANGED outside

Next == Run(MainHart, Program, MaxSteps, MaxCycles)

Spec == Init /\ [][Next]_vars

\* ------------------------------------------------------------------------
\* Properties of one hart from reset (Spec)
\* ------------------------------------------------------------------------

\* C1: after every instruction Step executes, whichever its type and also
\* when its rd is x0 or an ECALL handler has stored to x0, and after any
\* sequence of instructions, integer register x0 of every hart holds 0.
C1_ZeroRegisterHoldsZero == \A h \in Harts : regs[h][REG_ZERO] = Lit(0)

\* A second instruction in a row has completed with rd = x0, and it is one
\* that stored a non-zero value to regs[rd] before the reset to 0.
C1_Witness ==
    \E h \in Harts :
        /\ instr[h].type = "LUI"
        /\ instr[h].rd = REG_ZERO
        /\ instr[h].immediate # Lit(0)
        /\ err[h] = "none"
        /\ cycles[h] >= 2

\* C2: inside Step the cycle counter moves only by one per iteration of the
\* loop: while the loop runs and after `return false` it is the value at
\* entry plus the loop counter i; after `return true` at a breakpoint, and
\* after an iteration that ended in a fatal error, it is one more (that
\* iteration left before i++).  A call Step(n) never adds more than n.
C2_CyclesCountInstructions ==
    \A h \in Harts :
        /\ cycles[h] = entry_cycles[h] + i[h]
                       + (IF ctl[h] \in {"fault", "crash", "hang"}
                             \/ (ctl[h] = "idle" /\ ret[h])
                          THEN 1 ELSE 0)
        /\ i[h] <= steps[h]
        /\ cycles[h] - entry_cycles[h] <= steps[h]

\* Step(2) has returned false after one instruction only, the running
\* flag having been cleared: k = 1 < n = 2.
C2_Witness ==
    \E h \in Harts :
        /\ ctl[h] = "idle"
        /\ ~ret[h]
        /\ steps[h] = 2
        /\ i[h] = 1
        /\ instr[h].type # "NONE"
        /\ cycles[h] = entry_cycles[h] + 1

\* C3: when the last instruction a hart executed is neither JAL, JALR nor
\* a conditional branch and it raised no fatal error, pc is the pc the
\* iteration began with plus 4, modulo 2^32.
C3_PcAdvancesByFour ==
    \A h \in Harts :
        (/\ instr[h].type \notin JumpTypes \cup BranchTypes \cup {"NONE"}
         /\ err[h] = "none")
        => pc[h] = Add32(before[h].pc, Lit(4))

\* An instruction at 0xFFFFFFFC has completed and pc has wrapped to 0.
C3_Witness ==
    \E h \in Harts :
        /\ instr[h].type \notin JumpTypes \cup BranchTypes \cup {"NONE"}
        /\ err[h] = "none"
        /\ before[h].pc = U32(65535, 65532)
        /\ pc[h] = Lit(0)

\* The pc of hart h is a breakpoint address: in the hart's set, or an
\* address of the code image holding EBREAK.
AtBreakPoint(h) == pc[h] \in break_points[h] \/ pc[h] \in EbreakWords

\* While the loop of Step goes on after an instruction, pc is at no
\* breakpoint and i instructions have been executed.
StepLoopClear ==
    \A h \in Harts :
        (ctl[h] = "step" /\ i[h] > 0) => ~AtBreakPoint(h)

\* Step returns: with true in the step that executes an instruction
\* leaving pc at a breakpoint, not more than n executed and the
\* instruction at the breakpoint not executed; with false out of the loop
\* test, nothing executed in that step, after n instructions or after
\* fewer with the running flag clear, none of which left pc at a
\* breakpoint.
StepReturn ==
    \A h \in Harts :
        (ctl[h] = "step" /\ ctl'[h] = "idle") =>
            IF ret'[h]
            THEN /\ cycles'[h] = cycles[h] + 1
                 /\ AtBreakPoint(h)'
                 /\ err'[h] = "none"
                 /\ cycles'[h] - entry_cycles[h] <= steps[h]
                 /\ before'[h].pc = pc[h]
            ELSE /\ cycles'[h] = cycles[h] /\ pc'[h] = pc[h]
                 /\ regs'[h] = regs[h]
                 /\ cycles[h] - entry_cycles[h] = i[h]
                 /\ i[h] = steps[h] \/ (i[h] < steps[h] /\ ~running[h])
                 /\ i[h] > 0 => ~AtBreakPoint(h)

\* C12: Step(n) returns true exactly when an instruction it executed left
\* pc at a breakpoint address, at once after that instruction; otherwise
\* it returns false after n instructions, or fewer if the running flag
\* was cleared; Step(0) returns false, and a pc that is neither in the set
\* nor an address holding EBREAK is no breakpoint.
C12_StepReturnsAtBreakpoint == []StepLoopClear /\ [][StepReturn]_vars

\* Step(2) has returned true after its first instruction, pc being in the
\* breakpoint set.
C12_Witness ==
    \E h \in Harts :
        /\ ctl[h] = "idle" /\ ret[h]
        /\ steps[h] = 2 /\ i[h] = 0
        /\ cycles[h] = entry_cycles[h] + 1
        /\ pc[h] \in break_points[h]
        /\ pc[h] \notin EbreakWords

\* ------------------------------------------------------------------------
\* Conditional branches on drawn operands (SpecBranch)
\* ------------------------------------------------------------------------

\* Register values at the edges of the signed and the unsigned order:
\* 0, 1, INT32_MAX, INT32_MIN, -1.
OperandWords ==
    {Lit(0), Lit(1), U32(32767, 65535), U32(32768, 0), U32(65535, 65535)}

\* The register file with x1 = a and x2 = b.
RegsWith(a, b) == [ZeroRegs EXCEPT ![1] = a, ![2] = b]

\* Branches forward by 16 and back by 8, on two registers and on one.
BranchProgram ==
    {Instr(t, 0, 1, rs2, 0, imm, 0) :
     t \in BranchTypes, rs2 \in {1, 2}, imm \in {Lit(16), U32(65535, 65528)}}

InitBranch ==
    \E a \in OperandWords, b \in OperandWords :
        InitWith(RegsWith(a, b), ZeroFregs, "Machine", ZeroRam, {{}})

NextBranch == Run(MainHart, BranchProgram, DataSteps, DataSteps)

SpecBranch == InitBranch /\ [][NextBranch]_vars

\* a < b as two's-complement values: the one with the sign bit set is the
\* smaller, and with equal sign bits the unsigned order decides.
SignedLess(a, b) ==
    IF (a[1] >= 32768) # (b[1] >= 32768) THEN a[1] >= 32768 ELSE ULt(a, b)

\* The condition the ISA gives each branch.
BranchCondition(type, a, b) ==
    CASE type = "BEQ" -> a = b
      [] type = "BNE" -> a # b
      [] type = "BLT" -> SignedLess(a, b)
      [] type = "BGE" -> ~SignedLess(a, b)
      [] type = "BLTU" -> ULt(a, b)
      [] type = "BGEU" -> ~ULt(a, b)

\* C4: a conditional branch sets pc to pc + immediate when its condition
\* holds (BLT/BGE on the signed, BLTU/BGEU on the unsigned values) and to
\* pc + 4 otherwise, and changes no integer register; BNE on one register
\* falls through.
C4_BranchesCompareAndJump ==
    \A h \in Harts :
        instr[h].type \in BranchTypes =>
            LET a == before[h].regs[instr[h].rs1]
                b == before[h].regs[instr[h].rs2]
            IN  /\ err[h] = "none"
                /\ pc[h] = Add32(before[h].pc,
                                 IF BranchCondition(instr[h].type, a, b)
                                 THEN instr[h].immediate ELSE Lit(4))
                /\ regs[h] = before[h].regs
                /\ (instr[h].type = "BNE" /\ instr[h].rs1 = instr[h].rs2)
                   => pc[h] = Add32(before[h].pc, Lit(4))

\* BLT has jumped back on -1 < 1, which the unsigned order denies.
C4_Witness ==
    \E h \in Harts :
        /\ instr[h].type = "BLT"
        /\ before[h].regs[instr[h].rs1] = U32(65535, 65535)
        /\ before[h].regs[instr[h].rs2] = Lit(1)
        /\ pc[h] = Sub32(before[h].pc, Lit(8))

\* ------------------------------------------------------------------------
\* Byte and half-word loads on drawn memory (SpecLoad)
\* ------------------------------------------------------------------------

\* Byte values on both sides of the sign bit.
ByteValues == {0, 127, 128, 255}

\* RAM whose first three bytes are b0, b1, b2.
RamWith(b0, b1, b2) ==
    [a \in RamAddrs |->
        IF a = Lit(RamBase) THEN b0
        ELSE IF a = Lit(RamBase + 1) THEN b1
        ELSE IF a = Lit(RamBase + 2) THEN b2
        ELSE 0]

\* Loads from RamBase + 1 through x1 = RamBase or x2 = RamBase + 1, into
\* x1 (the base register itself) or x3.
LoadProgram ==
    {Instr(t, rd, a[1], 0, 0, a[2], 0) :
     t \in {"LB", "LBU", "LH", "LHU"}, rd \in {1, 3},
     a \in {<<1, Lit(1)>>, <<2, Lit(0)>>}}

InitLoad ==
    \E b0 \in ByteValues, b1 \in ByteValues, b2 \in ByteValues :
        InitWith(RegsWith(Lit(RamBase), Lit(RamBase + 1)), ZeroFregs,
                 "Machine", RamWith(b0, b1, b2), {{}})

NextLoad == Run(MainHart, LoadProgram, DataSteps, DataSteps)

SpecLoad == InitLoad /\ [][NextLoad]_vars

\* What the ISA has the load deliver from the byte b0 at the address and
\* the byte b1 after it.
LoadExpected(type, b0, b1) ==
    LET half == b1 * 256 + b0
    IN  CASE type = "LB" ->
               IF b0 >= 128 THEN U32(65535, 65280 + b0) ELSE Lit(b0)
          [] type = "LBU" -> Lit(b0)
          [] type = "LH" ->
               IF half >= 32768 THEN U32(65535, half) ELSE Lit(half)
          [] type = "LHU" -> Lit(half)

\* C5: LB / LH write to rd the byte / half-word at rs1 + immediate
\* sign-extended from bit 7 / 15, LBU / LHU the same zero-extended, when
\* the bytes addressed are on the bus; the value is a function of the
\* addressed bytes alone, whatever the neighbouring bytes and also when rd
\* is the base register, and no other register changes.
C5_LoadsExtend ==
    \A h \in Harts :
        LET addr == Add32(before[h].regs[instr[h].rs1], instr[h].immediate)
            size == IF instr[h].type \in {"LH", "LHU"} THEN 2 ELSE 1
            mapped == \A k \in 0..(size - 1) :
                          Add32(addr, Lit(k)) \in DOMAIN before[h].bus.bytes
        IN  (instr[h].type \in {"LB", "LBU", "LH", "LHU"} /\ mapped) =>
            LET b0 == before[h].bus.bytes[addr]
                b1 == IF size = 2 THEN before[h].bus.bytes[Add32(addr, Lit(1))]
                      ELSE 0
            IN  /\ err[h] = "none"
                /\ regs[h] = [before[h].regs EXCEPT ![instr[h].rd] =
                                 LoadExpected(instr[h].type, b0, b1)]

\* LB has loaded the byte 0x80 into its own base register as 0xFFFFFF80,
\* between the neighbours 0x7F and 0xFF.
C5_Witness ==
    \E h \in Harts :
        /\ instr[h].type = "LB"
        /\ instr[h].rd = instr[h].rs1
        /\ before[h].bus.bytes[Lit(RamBase)] = 127
        /\ before[h].bus.bytes[Lit(RamBase + 1)] = 128
        /\ before[h].bus.bytes[Lit(RamBase + 2)] = 255
        /\ regs[h][instr[h].rd] = U32(65535, 65408)

\* ------------------------------------------------------------------------
\* JAL and JALR on drawn operands (SpecJump)
\* ------------------------------------------------------------------------

\* Values of the base register x1: an odd code address, -1, a RAM address.
JumpBases == {Lit(StartPc + 17), U32(65535, 65535), Lit(RamBase)}

JumpProgram ==
    {Instr("JAL", rd, 0, 0, 0, imm, 0) :
     rd \in {0, 1}, imm \in {Lit(8), U32(65535, 65528)}}
    \cup {Instr("JALR", rd, 1, 0, 0, imm, 0) :
          rd \in {0, 1, 3}, imm \in {Lit(0), Lit(3), U32(65535, 65532)}}

InitJump ==
    \E a \in JumpBases :
        InitWith(RegsWith(a, Lit(0)), ZeroFregs, "Machine", ZeroRam, {{}})

NextJump == Run(MainHart, JumpProgram, DataSteps, DataSteps)

SpecJump == InitJump /\ [][NextJump]_vars

\* A word with bit 0 cleared.
ClearBit0(w) == <<w[1], w[2] - (w[2] % 2)>>

\* The register file after the link value is written to rd (x0 stays 0).
Linked(file, rd, value) ==
    IF rd = REG_ZERO THEN file ELSE [file EXCEPT ![rd] = value]

\* C6: JAL sets rd to the old pc + 4 and pc to the old pc + immediate;
\* JALR sets rd to the old pc + 4 and pc to (old rs1 + immediate) with
\* bit 0 cleared, the target taken from rs1 as it was before the link is
\* written (rd = rs1), and with rd = x0 only pc changes.
C6_JumpsLinkAndTarget ==
    \A h \in Harts :
        instr[h].type \in JumpTypes =>
            /\ err[h] = "none"
            /\ regs[h] = Linked(before[h].regs, instr[h].rd,
                                Add32(before[h].pc, Lit(4)))
            /\ pc[h] = IF instr[h].type = "JAL"
                       THEN Add32(before[h].pc, instr[h].immediate)
                       ELSE ClearBit0(Add32(before[h].regs[instr[h].rs1],
                                            instr[h].immediate))

\* JALR x1, 0(x1) with x1 odd: the target is the old x1 with bit 0
\* cleared, and x1 now holds the link.
C6_Witness ==
    \E h \in Harts :
        /\ instr[h].type = "JALR"
        /\ instr[h].rd = instr[h].rs1
        /\ instr[h].immediate = Lit(0)
        /\ before[h].regs[1] = Lit(StartPc + 17)
        /\ pc[h] = Lit(StartPc + 16)
        /\ regs[h][1] = Lit(StartPc + 4)

\* ------------------------------------------------------------------------
\* CSR instructions at each privilege level (SpecCsr)
\* ------------------------------------------------------------------------

\* CSR addresses on both sides of every boundary of CSRPrivilegeCheck;
\* after Setup 3, 4, 0x120, 0x121, 0xBFF, 0xCEF and 0xCF0 are not in the
\* map.
CsrAddrs ==
    {CSR_FRM, 3, 4, CSR_SSTATUS, 288, 289, CSR_SCONTEXT, CSR_MSTATUS,
     3071, CSR_CYCLE, 3311, 3312}

CsrProgram ==
    {Instr(t, rd, rs1, 0, 0, Lit(csr), 0) :
     t \in CsrTypes, rd \in {0, 1}, rs1 \in {0, 1}, csr \in CsrAddrs}

\* privilege_level is drawn: the level is an input of CSRPrivilegeCheck.
InitCsr ==
    \E level \in PrivilegeLevels :
        InitWith(RegsWith(Lit(5), Lit(0)), ZeroFregs, level, ZeroRam, {{}})

NextCsr == Run(MainHart, CsrProgram, DataSteps, DataSteps)

SpecCsr == InitCsr /\ [][NextCsr]_vars

Rank(level) ==
    CASE level = "User" -> 0 [] level = "Supervisor" -> 1
      [] level = "Machine" -> 2

\* The lowest level at which a CSR address is accessible.
RequiredLevel(csr) ==
    IF csr < 4 \/ (csr >= 3072 /\ csr < 3312) THEN "User"
    ELSE IF (csr >= 256 /\ csr < 289) \/ csr = CSR_SCONTEXT
    THEN "Supervisor"
    ELSE "Machine"

PrivilegeErrors == {"CSR Read Privilege", "CSR Write Privilege"}

AtomicSteps == 3

\* The harts are constructed with a starting_pc past the EBREAK word.
AtomicPc == Lit(StartPc + 12)

\* x1 and x2 hold the addresses of the two words of RAM, x3 a value.
WordX == Lit(RamBase)
WordY == Lit(RamBase + 4)
AtomicRegs == [RegsWith(WordX, WordY) EXCEPT ![3] = Lit(9)]

\* The main hart: LR.W on either word, SC.W x5, x3, (x1).  The others:
\* LR.W on the same word, SC.W x5, x2, (x1), and the plain store
\* SW x2, 0(x1).
AtomicProgram(h) ==
    IF h = MainHart
    THEN {Instr("LR_W", 4, 1, 0, 0, Lit(0), 0),
          Instr("LR_W", 4, 2, 0, 0, Lit(0), 0),
          Instr("SC_W", 5, 1, 3, 0, Lit(0), 0)}
    ELSE {Instr("LR_W", 4, 1, 0, 0, Lit(0), 0),
          Instr("SC_W", 5, 1, 2, 0, Lit(0), 0),
          Instr("SW", 0, 1, 2, 0, Lit(0), 0)}

AtomicBudget(h) == IF h = MainHart THEN AtomicSteps ELSE AtomicSteps - 1

InitAtomic ==
    InitAt(AtomicPc, AtomicRegs, ZeroFregs, "Machine", ZeroRam, {{}})

\* Each hart's thread calls Step(0) or Step(1); the bus serves one access
\* at a time.
NextAtomic ==
    \E h \in Harts : Run(h, AtomicProgram(h), 1, AtomicBudget(h))

SpecAtomic == InitAtomic /\ [][NextAtomic]_vars

\* The LR.W an SC.W is paired with: the last LR.W its hart completed
\* before access n, or 0 when there is none.
LrsBefore(n) ==
    {j \in 1..(n - 1) : log[j].type = "LR_W" /\ log[j].hart = log[n].hart}
Paired(n) ==
    IF LrsBefore(n) = {} THEN 0
    ELSE CHOOSE j \in LrsBefore(n) : \A k \in LrsBefore(n) : k <= j

\* The bytes an access of a type stores.
StoreBytes(type) ==
    CASE type = "SB" -> 1 [] type = "SH" -> 2 [] type = "FSD" -> 8
      [] OTHER -> 4

\* Access e wrote to granule g: a store, an AMO, or an SC.W that reported
\* success.
WritesTo(e, g) ==
    /\ \/ e.type \in StoreTypes \cup AmoTypes \cup {"FSW", "FSD"}
       \/ e.type = "SC_W" /\ e.result = Lit(0)
    /\ \E k \in 0..(StoreBytes(e.type) - 1) :
           Granule(Add32(e.addr, Lit(k))) = g

\* Between accesses j and n: a write to g by a hart other than h, any
\* write to g, an SC.W by hart h.
ForeignWrite(j, n, g, h) ==
    \E k \in (j + 1)..(n - 1) : WritesTo(log[k], g) /\ log[k].hart # h
AnyWrite(j, n, g) == \E k \in (j + 1)..(n - 1) : WritesTo(log[k], g)
OwnSc(j, n, h) ==
    \E k \in (j + 1)..(n - 1) : log[k].type = "SC_W" /\ log[k].hart = h

\* C8: when a hart's SC.W is on the address of the LR.W it is paired with
\* (the hart's last LR.W before it), and between the two no hart wrote to
\* that granule and the hart executed no other SC.W, the SC.W stores rs2
\* to the word and writes 0 to rd.
C8_ScSucceedsAfterLr ==
    \A n \in DOMAIN log :
        LET e == log[n]
            j == Paired(n)
        IN  (/\ e.type = "SC_W"
             /\ j # 0
             /\ log[j].addr = e.addr
             /\ ~AnyWrite(j, n, Granule(e.addr))
             /\ ~OwnSc(j, n, e.hart))
            => (e.result = Lit(0) /\ e.word = e.value)

\* An SC.W has succeeded although the other hart reached the bus between
\* it and its LR.W.
C8_Witness ==
    \E n \in DOMAIN log :
        /\ log[n].type = "SC_W"
        /\ Paired(n) # 0
        /\ log[n].result = Lit(0)
        /\ log[n].word = log[n].value
        /\ log[n].value # Lit(0)
        /\ \E k \in (Paired(n) + 1)..(n - 1) : log[k].hart # log[n].hart

\* C9: a hart's SC.W writes 1 to rd and leaves memory as it was when the
\* hart has completed no LR.W, when its last LR.W was on another granule,
\* when another hart wrote to the reserved granule after that LR.W, or
\* when the hart executed another SC.W after that LR.W; so of the SC.W of
\* two harts on one word only one with no foreign write since its LR.W
\* succeeds.
C9_ScFailsWithoutReservation ==
    \A n \in DOMAIN log :
        LET e == log[n]
            j == Paired(n)
        IN  (/\ e.type = "SC_W"
             /\ \/ j = 0
                \/ j # 0 /\ Granule(log[j].addr) # Granule(e.addr)
                \/ j # 0 /\ ForeignWrite(j, n, Granule(log[j].addr), e.hart)
                \/ j # 0 /\ OwnSc(j, n, e.hart))
            => (e.result = Lit(1) /\ e.kept)

\* Both harts executed LR.W and then SC.W on the word: the first SC.W
\* succeeded and the second, its reservation lost to that write, failed.
C9_Witness ==
    \E m \in DOMAIN log, n \in DOMAIN log :
        /\ m < n
        /\ log[m].type = "SC_W" /\ log[n].type = "SC_W"
        /\ log[m].hart # log[n].hart
        /\ Paired(m) # 0 /\ Paired(n) # 0 /\ Paired(n) < m
        /\ log[m].result = Lit(0)
        /\ log[n].result = Lit(1)
        /\ log[n].kept

\* ------------------------------------------------------------------------
\* DIV and REM on drawn operands (SpecDiv)
\* ------------------------------------------------------------------------

\* Dividends and divisors: 0, 1, INT32_MAX, INT32_MIN, -1, 2, 7, -7.
DivOperands == OperandWords \cup {Lit(2), Lit(7), U32(65535, 65529)}

DivProgram ==
    {Instr(t, rd, 1, 2, 0, Lit(0), 0) : t \in {"DIV", "REM"}, rd \in {1, 3}}

InitDiv ==
    \E a \in DivOperands, b \in DivOperands :
        InitWith(RegsWith(a, b), ZeroFregs, "Machine", ZeroRam, {{}})

NextDiv == Run(MainHart, DivProgram, DataSteps, DataSteps)

SpecDiv == InitDiv /\ [][NextDiv]_vars

\* Two's complement negation and magnitude of a word.
Neg32(w) == Sub32(Lit(0), w)
Magnitude(w) == IF w[1] >= 32768 THEN Neg32(w) ELSE w

\* The quotient of a by b truncated toward zero, as a 32-bit two's
\* complement word: the quotient of the magnitudes, negated when the signs
\* differ.  For a = -2^31 and b = -1 this is 2^31, the word 0x80000000.
Quotient(a, b) ==
    LET q == UDiv(Magnitude(a), Magnitude(b))
    IN  IF (a[1] >= 32768) # (b[1] >= 32768) THEN Neg32(q) ELSE q

\* C10: for b # 0, DIV completes and writes the truncated quotient of
\* rs1 by rs2 to rd, also for a = -2^31 and b = -1, and REM completes and
\* writes the r with a = b * quotient + r.
C10_DivTruncatesTowardZero ==
    \A h \in Harts :
        LET a == before[h].regs[instr[h].rs1]
            b == before[h].regs[instr[h].rs2]
        IN  (instr[h].type \in {"DIV", "REM"} /\ b # Lit(0)) =>
                /\ err[h] = "none"
                /\ regs[h][instr[h].rd] =
                       IF instr[h].type = "DIV" THEN Quotient(a, b)
                       ELSE Sub32(a, MulLow(b, Quotient(a, b)))

\* DIV with a = -2^31 and b = -1 has ended the process.
C10_Witness ==
    \E h \in Harts :
        /\ instr[h].type = "DIV"
        /\ before[h].regs[1] = U32(32768, 0)
        /\ before[h].regs[2] = U32(65535, 65535)
        /\ err[h] = DivideTrap
        /\ ctl[h] = "crash"

\* C10 for every pair but a = -2^31, b = -1.
C10_DivExceptOverflow ==
    \A h \in Harts :
        LET a == before[h].regs[instr[h].rs1]
            b == before[h].regs[instr[h].rs2]
        IN  (/\ instr[h].type \in {"DIV", "REM"}
             /\ b # Lit(0)
             /\ ~(a = U32(32768, 0) /\ b = U32(65535, 65535))) =>
                /\ err[h] = "none"
                /\ regs[h][instr[h].rd] =
                       IF instr[h].type = "DIV" THEN Quotient(a, b)
                       ELSE Sub32(a, MulLow(b, Quotient(a, b)))

\* ------------------------------------------------------------------------
\* FCLASS.S and FCLASS.D on drawn bit patterns (SpecClass)
\* ------------------------------------------------------------------------

\* Single-precision patterns without the sign: zero, least and greatest
\* subnormal, least and greatest normal, 1.0, infinity, signalling NaNs,
\* quiet NaNs.
ClassWords ==
    {Lit(0), Lit(1), U32(127, 65535), U32(128, 0), U32(32639, 65535),
     U32(16256, 0), U32(32640, 0), U32(32640, 1), U32(32703, 65535),
     U32(32704, 0), U32(32767, 65535)}

\* Double-precision patterns without the sign, as <<high word, low word>>.
ClassDoubles ==
    {<<Lit(0), Lit(0)>>, <<Lit(0), Lit(1)>>, <<U32(15, 65535), Lit(0)>>,
     <<U32(16, 0), Lit(0)>>, <<U32(32751, 65535), U32(65535, 65535)>>,
     <<U32(32752, 0), Lit(0)>>, <<U32(32752, 0), Lit(1)>>,
     <<U32(32759, 65535), Lit(0)>>, <<U32(32760, 0), Lit(0)>>,
     <<U32(32767, 65535), U32(65535, 65535)>>}

\* A word with bit 31 set.
Negative(w) == <<w[1] + 32768, w[2]>>

\* The float register contents drawn: every pattern with either sign, the
\* single-precision ones in the low word under an upper word of ones.
ClassValues ==
    UNION {{<<U32(65535, 65535), w>>, <<U32(65535, 65535), Negative(w)>>} :
           w \in ClassWords}
    \cup UNION {{d, <<Negative(d[1]), d[2]>>} : d \in ClassDoubles}

ClassProgram ==
    {Instr(t, 3, 1, 0, 0, Lit(0), RM_ROUND_TO_NEAREST_TIES_EVEN) :
     t \in FClassTypes}

InitClass ==
    \E v \in ClassValues :
        InitWith(ZeroRegs, [ZeroFregs EXCEPT ![1] = v], "Machine", ZeroRam,
                 {{}})

NextClass == Run(MainHart, ClassProgram, DataSteps, DataSteps)

SpecClass == InitClass /\ [][NextClass]_vars

\* The class of an IEEE-754 pattern as the bit FCLASS gives it: 0 -inf,
\* 1 negative normal, 2 negative subnormal, 3 -0, 4 +0, 5 positive
\* subnormal, 6 positive normal, 7 +inf, 8 signalling NaN, 9 quiet NaN;
\* neg, exp_zero, exp_ones, frac_zero and quiet describe the pattern.
ClassBit(neg, exp_zero, exp_ones, frac_zero, quiet) ==
    IF exp_ones /\ ~frac_zero THEN (IF quiet THEN 9 ELSE 8)
    ELSE IF exp_ones THEN (IF neg THEN 0 ELSE 7)
    ELSE IF exp_zero /\ frac_zero THEN (IF neg THEN 3 ELSE 4)
    ELSE IF exp_zero THEN (IF neg THEN 2 ELSE 5)
    ELSE IF neg THEN 1 ELSE 6

ClassBitS(w) ==
    LET rest == w[1] % 32768
    IN  ClassBit(w[1] >= 32768, rest \div 128 = 0, rest \div 128 = 255,
                 rest % 128 = 0 /\ w[2] = 0, (rest % 128) \div 64 = 1)

ClassBitD(d) ==
    LET rest == d[1][1] % 32768
    IN  ClassBit(d[1][1] >= 32768, rest \div 16 = 0, rest \div 16 = 2047,
                 rest % 16 = 0 /\ d[1][2] = 0 /\ d[2] = Lit(0),
                 (rest % 16) \div 8 = 1)

\* C11: FCLASS.S and FCLASS.D write to rd the mask with exactly one bit
\* set, the bit of the class of the pattern in the source register.
C11_FclassOneBit ==
    \A h \in Harts :
        instr[h].type \in FClassTypes =>
            LET v == before[h].fregs[instr[h].rs1]
                k == IF instr[h].type = "FCLASS_S" THEN ClassBitS(v[2])
                     ELSE ClassBitD(v)
            IN  err[h] = "none" /\ regs[h][instr[h].rd] = Lit(2 ^ k)

\* FCLASS.S of -infinity has written 67: the bits of -inf, of negative
\* normal and of positive normal together.
C11_Witness ==
    \E h \in Harts :
        /\ instr[h].type = "FCLASS_S"
        /\ before[h].fregs[1] = <<U32(65535, 65535), U32(65408, 0)>>
        /\ err[h] = "none"
        /\ regs[h][3] = Lit(67)

\* The patterns FCLASS classifies as the claim says: subnormals of either
\* sign, positive normals and positive signalling NaNs.
C11_FclassRightClasses ==
    \A h \in Harts :
        instr[h].type \in FClassTypes =>
            LET v == before[h].fregs[instr[h].rs1]
                k == IF instr[h].type = "FCLASS_S" THEN ClassBitS(v[2])
                     ELSE ClassBitD(v)
                neg == IF instr[h].type = "FCLASS_S" THEN v[2][1] >= 32768
                       ELSE v[1][1] >= 32768
            IN  (k \in {2, 5, 6} \/ (k = 8 /\ ~neg))
                    <=> regs[h][instr[h].rd] = Lit(2 ^ k)

\* ------------------------------------------------------------------------
\* The run loop (SpecRun): one thread per hart in Run, the embedder
\* writing the flags
\* ------------------------------------------------------------------------

\* The instructions a batch of Step() asks for (the default argument of
\* Step) and the instructions a hart is asked for in all.
BatchSize == 2
RunCycles == 4

\* Everything but the flags and the position in Run.
machine ==
    <<regs, fregs, pc, csrs, privilege_level, cycles, ticks, running,
      break_points, time, memory, reservation, ctl, steps, i, instr, before,
      err, ret, entry_cycles, log>>

RunProgram == InstrsOf("ADDI") \cup InstrsOf("JAL") \cup InstrsOf("EBREAK")

\* The thread of hart h calls Run.
RunEnter(h) ==
    /\ loop[h] = "out"
    /\ ctl[h] = "idle"
    /\ loop' = [loop EXCEPT ![h] = "top"]
    /\ UNCHANGED <<machine, observer, paused, pause_on_break>>

\* while (running) fails: Run returns.
RunReturn(h) ==
    /\ loop[h] = "top"
    /\ ~running[h]
    /\ loop' = [loop EXCEPT ![h] = "done"]
    /\ UNCHANGED <<machine, observer, paused, pause_on_break>>

\* if (paused): the thread yields, and comes back to the loop test.
RunYield(h) ==
    /\ loop[h] = "top"
    /\ running[h]
    /\ paused[h]
    /\ loop' = [loop EXCEPT ![h] = "yield"]
    /\ UNCHANGED <<machine, observer, paused, pause_on_break>>

RunResumeUnpaused(h) ==
    /\ loop[h] = "yield"
    /\ ~paused[h]
    /\ loop' = [loop EXCEPT ![h] = "top"]
    /\ UNCHANGED <<machine, observer, paused, pause_on_break>>
RunResume(h) ==
    /\ loop[h] = "yield"
    /\ loop' = [loop EXCEPT ![h] = "top"]
    /\ UNCHANGED <<machine, observer, paused, pause_on_break>>

\* else: Step() is called.
RunStep(h, budget) ==
    /\ loop[h] = "top"
    /\ running[h]
    /\ ~paused[h]
    /\ StepBegin(h, BatchSize, budget)
    /\ loop' = [loop EXCEPT ![h] = "call"]
    /\ UNCHANGED <<paused, pause_on_break, observer>>

\* Step() has returned: if (Step() && pause_on_break) paused = true.
RunPauseNever(h) ==
    /\ loop[h] = "call"
    /\ ctl[h] = "idle"
    /\ loop' = [loop EXCEPT ![h] = "top"]
    /\ UNCHANGED <<machine, observer, paused, pause_on_break>>
RunPause(h) ==
    /\ loop[h] = "call"
    /\ ctl[h] = "idle"
    /\ paused' = [paused EXCEPT ![h] = @ \/ (ret[h] /\ pause_on_break[h])]
    /\ loop' = [loop EXCEPT ![h] = "top"]
    /\ UNCHANGED <<machine, observer, pause_on_break>>

\* The embedder writes paused and pause_on_break.
SetPaused(h, b) ==
    /\ paused[h] # b
    /\ paused' = [paused EXCEPT ![h] = b]
    /\ UNCHANGED <<machine, observer, pause_on_break, loop>>

SetPauseOnBreak(h, b) ==
    /\ pause_on_break[h] # b
    /\ pause_on_break' = [pause_on_break EXCEPT ![h] = b]
    /\ UNCHANGED <<machine, observer, paused, loop>>

InitRun ==
    InitWith(ZeroRegs, ZeroFregs, "Machine", ZeroRam, BreakPointSets)

NextRun ==
    \/ Start(MainHart) /\ UNCHANGED outside
    \/ Stop(MainHart) /\ UNCHANGED outside
    \/ \E b \in BOOLEAN : SetPaused(MainHart, b)
    \/ \E b \in BOOLEAN : SetPauseOnBreak(MainHart, b)
    \/ RunEnter(MainHart)
    \/ RunReturn(MainHart)
    \/ RunYield(MainHart)
    \/ RunResume(MainHart)
    \/ RunStep(MainHart, RunCycles)
    \/ StepInstr(MainHart, RunProgram) /\ UNCHANGED outside
    \/ StepEnd(MainHart) /\ UNCHANGED outside
    \/ RunPause(MainHart)

SpecRun == InitRun /\ [][NextRun]_vars

\* Hart h is not in a batch: its thread is at the loop test or yields.
AtTop(h) == loop[h] \in {"top", "yield"}

\* Back from a batch that returned true, pc is at the breakpoint and
\* nothing was executed since the instruction that arrived there.
BackAtBreakPoint ==
    \A h \in Harts :
        (loop[h] = "call" /\ ctl[h] = "idle" /\ ret[h]) =>
            /\ AtBreakPoint(h)
            /\ err[h] = "none"
            /\ cycles[h] = before[h].cycles + 1

RunLoopStep ==
    \A h \in Harts :
        \* the return value is looked at: the hart is paused exactly if it
        \* was, or the batch returned true with pause-on-break set; nothing
        \* is executed in between
        /\ (loop[h] = "call" /\ loop'[h] # "call") =>
              /\ loop'[h] = "top"
              /\ paused'[h] = (paused[h] \/ (ret[h] /\ pause_on_break[h]))
              /\ pc'[h] = pc[h] /\ cycles'[h] = cycles[h]
              /\ (ret[h] /\ pause_on_break[h]) => AtBreakPoint(h)'
        \* a hart out of a batch whose paused flag is and stays set does
        \* not enter one, and nothing of it changes
        /\ (AtTop(h) /\ paused[h] /\ paused'[h]) =>
              /\ AtTop(h)' \/ (loop'[h] = "done" /\ ~running[h])
              /\ pc'[h] = pc[h] /\ regs'[h] = regs[h]
              /\ fregs'[h] = fregs[h] /\ csrs'[h] = csrs[h]
              /\ cycles'[h] = cycles[h]
        \* an instruction is executed only in a batch
        /\ cycles'[h] # cycles[h] => loop[h] = "call" /\ ctl[h] = "step"

\* C13: in the run loop, when a batch returns true while pause-on-break is
\* set the hart is paused before it executes anything more, pc being the
\* breakpoint address; while paused stays set the hart executes nothing;
\* with pause-on-break clear a batch that returns true does not pause it.
C13_PauseOnBreak == []BackAtBreakPoint /\ [][RunLoopStep]_vars

\* The hart was paused by a batch that returned true, at the breakpoint
\* in its set, and yields.
C13_Witness ==
    \E h \in Harts :
        /\ loop[h] = "yield" /\ paused[h] /\ pause_on_break[h]
        /\ ret[h] /\ pc[h] \in break_points[h]
        /\ cycles[h] = 1

\* ------------------------------------------------------------------------
\* The run loop under a fair scheduler (SpecRunFair): the thread of the
\* hart is given the processor again and again, so each step of Run and of
\* Step that stays possible is taken
\* ------------------------------------------------------------------------

RunThread(h) ==
    \/ RunReturn(h)
    \/ RunYield(h)
    \/ RunResume(h)
    \/ RunStep(h, RunCycles)
    \/ StepInstr(h, RunProgram) /\ UNCHANGED outside
    \/ StepEnd(h) /\ UNCHANGED outside
    \/ RunPause(h)

SpecRunFair == SpecRun /\ WF_vars(RunThread(MainHart))

\* The thread of hart h is in the loop of Run or of Step.
InLoop(h) ==
    \/ loop[h] \in {"top", "yield"}
    \/ loop[h] = "call" /\ ctl[h] \in {"idle", "step"}

\* An instruction begins only when the loop test of Step saw running set.
StepSawRunning ==
    \A h \in Harts : cycles'[h] # cycles[h] => running[h]

\* C14: once the running flag is cleared and never set again, the loop of
\* Step stops at its next test and Run returns, the hart paused or not
\* (or Step has left both by a fatal error); no instruction begins after
\* a loop test that saw the flag clear.
C14_StopEndsLoops ==
    /\ [][StepSawRunning]_vars
    /\ \A h \in {MainHart} :
          <>[](~running[h]) => <>[](~InLoop(h) /\ ctl[h] # "step")

\* Run has returned from a paused hart that had executed instructions.
C14_Witness ==
    \E h \in Harts :
        /\ loop[h] = "done" /\ ~running[h] /\ paused[h]
        /\ cycles[h] > 0

\* ------------------------------------------------------------------------
\* CSR instructions at Machine level on the read-only addresses, and
\* Setup called between calls of Step (SpecReadOnly)
\* ------------------------------------------------------------------------

\* Setup(), called by the embedder while hart h is not in Step.
SetupCall(h) ==
    /\ ctl[h] = "idle"
    /\ regs' = [regs EXCEPT ![h] = ZeroRegs]
    /\ fregs' = [fregs EXCEPT ![h] = ZeroFregs]
    /\ csrs' = [csrs EXCEPT ![h] = Setup(csrs[h])]
    /\ privilege_level' = [privilege_level EXCEPT ![h] = "Machine"]
    /\ cycles' = [cycles EXCEPT ![h] = 0]
    /\ UNCHANGED <<pc, ticks, running, break_points, time, memory,
                   reservation, ctl, steps, i, instr, before, err, ret,
                   entry_cycles, log, outside>>

IdentityCsrs ==
    {CSR_MVENDORID, CSR_MARCHID, CSR_MIMPID, CSR_MHARTID, CSR_MISA}

ReadOnlyProgram ==
    {Instr(t, rd, rs1, 0, 0, Lit(csr), 0) :
     t \in CsrTypes, rd \in {0, 1}, rs1 \in {0, 1},
     csr \in ReadOnlyCsrs \cup {CSR_SSCRATCH}}

InitReadOnly ==
    InitWith(RegsWith(Lit(5), Lit(0)), ZeroFregs, "Machine", ZeroRam, {{}})

NextReadOnly ==
    \/ Run(MainHart, ReadOnlyProgram, MaxSteps, MaxCycles)
    \/ SetupCall(MainHart) /\ cycles[MainHart] > 0

SpecReadOnly == InitReadOnly /\ [][NextReadOnly]_vars

\* The instruction hart h executed last writes its CSR: CSRRW and CSRRWI
\* always, the others unless rs1 (the immediate field) is 0.
CsrWrites(h) ==
    /\ instr[h].type \in CsrTypes
    /\ instr[h].type \notin {"CSRRS", "CSRRC"} \/ instr[h].rs1 # REG_ZERO

\* The instruction of hart h is the last thing that happened to it.
JustExecuted(h) == cycles[h] = before[h].cycles + 1

\* C15: at Machine level a CSR instruction that writes one of MVENDORID,
\* MARCHID, MIMPID, MHARTID, MISA, MINSTRET, MINSTRETH, CYCLE, CYCLEH,
\* TIME, TIMEH raises no error and leaves the CSR map as it was; and the
\* five identity CSRs hold the values of construction in every state.
C15_ReadOnlyWritesIgnored ==
    \A h \in Harts :
        /\ (/\ CsrWrites(h) /\ JustExecuted(h)
            /\ before[h].privilege_level = "Machine"
            /\ ToNat(instr[h].immediate) \in ReadOnlyCsrs)
           => (err[h] = "none" /\ csrs[h] = before[h].csrs)
        /\ \A c \in IdentityCsrs :
              c \in DOMAIN csrs[h] /\ csrs[h][c] = ConstructorCsrs(h)[c]

\* CSRRW x0, minstret, x1 at Machine level has raised the invalid-CSR
\* error.
C15_Witness ==
    \E h \in Harts :
        /\ instr[h] = Instr("CSRRW", 0, 1, 0, 0, Lit(CSR_MINSTRET), 0)
        /\ before[h].privilege_level = "Machine"
        /\ JustExecuted(h)
        /\ err[h] = "Write Invalid CSR"

\* What holds of the code: the writes to the read-only addresses that
\* reset populates are ignored without an error, a write to MINSTRET or
\* MINSTRETH raises an invalid-CSR error, and the identity CSRs keep
\* their values through instructions and Setup.
C15_PopulatedReadOnly ==
    \A h \in Harts :
        /\ (/\ CsrWrites(h) /\ JustExecuted(h)
            /\ before[h].privilege_level = "Machine"
            /\ ToNat(instr[h].immediate) \in ReadOnlyCsrs)
           => /\ csrs[h] = before[h].csrs
              /\ IF ToNat(instr[h].immediate)
                        \in {CSR_MINSTRET, CSR_MINSTRETH}
                 THEN err[h] \in {"Read Invalid CSR", "Write Invalid CSR"}
                 ELSE err[h] = "none"
        /\ \A c \in IdentityCsrs :
              c \in DOMAIN csrs[h] /\ csrs[h][c] = ConstructorCsrs(h)[c]

\* ------------------------------------------------------------------------
\* CSR reads of the cycle counter at Machine level (SpecCycle)
\* ------------------------------------------------------------------------

CycleCsrs == {CSR_CYCLE, CSR_CYCLEH, CSR_MCYCLE, CSR_MCYCLEH}

CycleProgram ==
    {Instr(t, rd, rs1, 0, 0, Lit(csr), 0) :
     t \in CsrTypes, rd \in {0, 1}, rs1 \in {0, 1}, csr \in CycleCsrs}

InitCycle ==
    InitWith(RegsWith(Lit(5), Lit(0)), ZeroFregs, "Machine", ZeroRam, {{}})

NextCycle ==
    \/ Run(MainHart, CycleProgram, MaxSteps, MaxCycles)
    \/ SetupCall(MainHart) /\ cycles[MainHart] > 0

SpecCycle == InitCycle /\ [][NextCycle]_vars

\* The two words of the 64-bit counter c (c < 2^31 here).
CyclesLow(c) == Lit(c)
CyclesHigh(c) == Lit(0)

\* Hart h has just executed a CSR instruction that reads address csr
\* into rd at Machine level.
CsrReads(h, csr) ==
    /\ instr[h].type \in CsrTypes
    /\ instr[h].rd # REG_ZERO
    /\ ToNat(instr[h].immediate) = csr
    /\ JustExecuted(h)
    /\ before[h].privilege_level = "Machine"

\* C16: at Machine level a CSR read of CYCLE or MCYCLE delivers the low
\* word of cycles, and one of CYCLEH or MCYCLEH its high word.
C16_CycleReadsLive ==
    \A h \in Harts :
        /\ \A csr \in {CSR_CYCLE, CSR_MCYCLE} :
              CsrReads(h, csr) =>
                  err[h] = "none"
                  /\ regs[h][instr[h].rd] = CyclesLow(cycles[h])
        /\ \A csr \in {CSR_CYCLEH, CSR_MCYCLEH} :
              CsrReads(h, csr) =>
                  err[h] = "none"
                  /\ regs[h][instr[h].rd] = CyclesHigh(cycles[h])

\* CSRRS x1, mcycle, x0 at Machine level has raised the invalid-CSR error.
C16_Witness ==
    \E h \in Harts :
        /\ instr[h] = Instr("CSRRS", 1, 0, 0, 0, Lit(CSR_MCYCLE), 0)
        /\ CsrReads(h, CSR_MCYCLE)
        /\ err[h] = "Read Invalid CSR"
        /\ regs[h][1] = before[h].regs[1]

\* What holds of the code: the reads of CYCLE and CYCLEH deliver the two
\* words of cycles, the count including the reading instruction, and the
\* reads of MCYCLE and MCYCLEH raise the invalid-CSR error.
C16_UserCycleReads ==
    \A h \in Harts :
        /\ CsrReads(h, CSR_CYCLE) =>
              err[h] = "none"
              /\ regs[h][instr[h].rd] = CyclesLow(cycles[h])
        /\ CsrReads(h, CSR_CYCLEH) =>
              err[h] = "none"
              /\ regs[h][instr[h].rd] = CyclesHigh(cycles[h])
        /\ \A csr \in {CSR_MCYCLE, CSR_MCYCLEH} :
              CsrReads(h, csr) => err[h] = "Read Invalid CSR"

\* ------------------------------------------------------------------------
\* GetSnapshot called by another thread while the hart steps (SpecSnap).
\* The three assignments of GetSnapshot are three steps; an instruction
\* of the hart is one step (the copies of the elements of an array and
\* the stores of one instruction are not taken apart).
\* ------------------------------------------------------------------------

\* The registers and pc of hart h.
Triple(h) == <<regs[h], fregs[h], pc[h]>>

\* registers = regs: a call of GetSnapshot begins.
SnapRegisters(h) ==
    /\ snapshot[h].at \in {"none", "pc"}
    /\ snapshot' = [snapshot EXCEPT ![h] =
                      [@ EXCEPT !.at = "registers", !.registers = regs[h],
                                !.seen = {Triple(h)}]]
    /\ UNCHANGED <<machine, runner, history_delta, history_tick, time_cmp>>

\* fregisters = fregs.
SnapFregisters(h) ==
    /\ snapshot[h].at = "registers"
    /\ snapshot' = [snapshot EXCEPT ![h] =
                      [@ EXCEPT !.at = "fregisters",
                                !.fregisters = fregs[h]]]
    /\ UNCHANGED <<machine, runner, history_delta, history_tick, time_cmp>>

\* pc = this->pc: the call returns.
SnapPc(h) ==
    /\ snapshot[h].at = "fregisters"
    /\ snapshot' = [snapshot EXCEPT ![h] =
                      [@ EXCEPT !.at = "pc", !.pc = pc[h]]]
    /\ UNCHANGED <<machine, runner, history_delta, history_tick, time_cmp>>

\* An iteration of Step; the state it leaves is one the hart was in
\* during a call of GetSnapshot in progress.
SnapStepInstr(h, prog) ==
    /\ StepInstr(h, prog)
    /\ snapshot' = [snapshot EXCEPT ![h].seen =
                      IF snapshot[h].at \in {"registers", "fregisters"}
                      THEN @ \cup {<<regs'[h], fregs'[h], pc'[h]>>}
                      ELSE @]
    /\ UNCHANGED <<runner, history_delta, history_tick, time_cmp>>

SnapProgram == InstrsOf("ADDI") \cup InstrsOf("FMV_W_X")

InitSnap ==
    InitWith(RegsWith(Lit(5), Lit(0)), ZeroFregs, "Machine", ZeroRam, {{}})

NextSnap ==
    \/ Start(MainHart) /\ UNCHANGED outside
    \/ Stop(MainHart) /\ UNCHANGED outside
    \/ (\E n \in 0..MaxSteps : StepBegin(MainHart, n, MaxCycles))
           /\ UNCHANGED outside
    \/ SnapStepInstr(MainHart, SnapProgram)
    \/ StepEnd(MainHart) /\ UNCHANGED outside
    \/ SnapRegisters(MainHart)
    \/ SnapFregisters(MainHart)
    \/ SnapPc(MainHart)

SpecSnap == InitSnap /\ [][NextSnap]_vars

\* C17: what a call of GetSnapshot returned is one state the hart was in
\* during the call: registers, fregisters and pc of the same state, x0
\* being 0.
C17_SnapshotAtomic ==
    \A h \in Harts :
        snapshot[h].at = "pc" =>
            /\ <<snapshot[h].registers, snapshot[h].fregisters,
                 snapshot[h].pc>> \in snapshot[h].seen
            /\ snapshot[h].registers[REG_ZERO] = Lit(0)

\* A call has returned the registers of the state at StartPc with the pc
\* of the next instruction, ADDI x1, x1, 5 having changed x1 in between.
C17_Witness ==
    \E h \in Harts :
        /\ snapshot[h].at = "pc"
        /\ snapshot[h].registers[1] = Lit(5)
        /\ snapshot[h].pc = Lit(StartPc + 4)
        /\ regs[h][1] = Lit(10)
        /\ pc[h] = Lit(StartPc + 4)
        /\ cycles[h] = 1

\* What holds of the code: each of the three members a call returned is
\* that member of some state the hart was in during the call.
C17_SnapshotMemberwise ==
    \A h \in Harts :
        snapshot[h].at = "pc" =>
            /\ \E x \in snapshot[h].seen : x[1] = snapshot[h].registers
            /\ \E x \in snapshot[h].seen : x[2] = snapshot[h].fregisters
            /\ \E x \in snapshot[h].seen : x[3] = snapshot[h].pc

\* ------------------------------------------------------------------------
\* The timer thread calling UpdateTime between calls of Step (SpecTime)
\* ------------------------------------------------------------------------

\* The length the history is trimmed to, and the length beyond which the
\* timer thread is not followed.
MAX_HISTORY == 2
HistoryCap == MAX_HISTORY + 1

\* What delta_time() delivers, and the ticks it makes,
\* delta_time() * TICKS_PER_SECOND.
Deltas == {0, 1}

\* 64-bit values as <<high word, low word>>.
Add64(t, n) ==
    LET low == Add32(t[2], Lit(n))
    IN  <<IF ULt(low, t[2]) THEN Add32(t[1], Lit(1)) ELSE t[1], low>>
UGe64(a, b) == ULt(b[1], a[1]) \/ (a[1] = b[1] /\ UGe(a[2], b[2]))

\* The history without its oldest entries, max of them being kept.
RECURSIVE Trim(_, _)
Trim(seq, max) == IF Len(seq) > max THEN Trim(Tail(seq), max) ELSE seq

\* UpdateTime(): d1 and d2 are what the two calls of delta_time()
\* deliver.  The throw leaves the function before the loop that trims.
UpdateTime(h, d1, d2) ==
    /\ ctl[h] = "idle"
    /\ Len(history_delta[h]) < HistoryCap
    /\ ticks' = [ticks EXCEPT ![h] = 0]
    /\ time' = [time EXCEPT ![h] = Add64(time[h], d2)]
    /\ LET deltas == Append(history_delta[h], d1)
           tick == Append(history_tick[h], ticks[h])
           thrown == UGe64(Add64(time[h], d2), time_cmp[h])
       IN  /\ history_delta' =
                 [history_delta EXCEPT ![h] =
                     IF thrown THEN deltas ELSE Trim(deltas, MAX_HISTORY)]
           /\ history_tick' =
                 [history_tick EXCEPT ![h] =
                     IF thrown THEN tick ELSE Trim(tick, MAX_HISTORY)]
    /\ UNCHANGED <<regs, fregs, pc, csrs, privilege_level, cycles, running,
                   break_points, memory, reservation, ctl, steps, i, instr,
                   before, err, ret, entry_cycles, log, runner, snapshot,
                   time_cmp>>

TimeProgram == InstrsOf("ADDI")

InitTime == InitWith(ZeroRegs, ZeroFregs, "Machine", ZeroRam, {{}})

\* The instructions are counted by cycles here, ticks being reset by the
\* timer.
NextTime ==
    \/ Start(MainHart) /\ UNCHANGED outside
    \/ Stop(MainHart) /\ UNCHANGED outside
    \/ (\E n \in 0..MaxSteps :
            /\ StepBegin(MainHart, n, MaxSteps)
            /\ cycles[MainHart] + n <= DataSteps)
           /\ UNCHANGED outside
    \/ StepInstr(MainHart, TimeProgram) /\ UNCHANGED outside
    \/ StepEnd(MainHart) /\ UNCHANGED outside
    \/ \E d1, d2 \in Deltas : UpdateTime(MainHart, d1, d2)

SpecTime == InitTime /\ [][NextTime]_vars

\* C18: after every call of UpdateTime, returned or thrown, the history
\* holds at most MAX_HISTORY entries and as many deltas as ticks.
C18_HistoryBounded ==
    \A h \in Harts :
        /\ Len(history_delta[h]) <= MAX_HISTORY
        /\ Len(history_delta[h]) = Len(history_tick[h])

\* A call on a full history has raised the timer error: time has reached
\* time_cmp and the history holds MAX_HISTORY + 1 entries.
C18_Witness ==
    \E h \in Harts :
        /\ UGe64(time[h], time_cmp[h])
        /\ Len(history_delta[h]) = MAX_HISTORY + 1
        /\ Len(history_tick[h]) = MAX_HISTORY + 1

\* What holds of the code: the two sequences have one length, and the
\* history holds at most MAX_HISTORY entries as long as no call has
\* raised the timer error.
C18_HistoryPaired ==
    \A h \in Harts :
        /\ Len(history_delta[h]) = Len(history_tick[h])
        /\ ~UGe64(time[h], time_cmp[h]) =>
              Len(history_delta[h]) <= MAX_HISTORY

\* What holds of the code: a call that returns keeps the newest entries
\* in their order, dropping the oldest.
UpdateTimeDropsOldest ==
    \A h \in Harts :
        (history_tick'[h] # history_tick[h]
         /\ ~UGe64(time'[h], time_cmp'[h])) =>
            /\ Len(history_tick'[h]) <= MAX_HISTORY
            /\ \E d \in Deltas :
                  history_delta'[h]
                      = Trim(Append(history_delta[h], d), MAX_HISTORY)
            /\ history_tick'[h]
                  = Trim(Append(history_tick[h], ticks[h]), MAX_HISTORY)
C18_DropsOldest == [][UpdateTimeDropsOldest]_vars

\* ------------------------------------------------------------------------
\* The cycle counter through calls of Step, faults and Setup (SpecCycle)
\* ------------------------------------------------------------------------

CyclesNeverDecrease == \A h \in Harts : cycles'[h] >= cycles[h]

\* C19: through calls of Step, faults and calls of Setup the value of
\* cycles never decreases.
C19_CyclesMonotonic == [][CyclesNeverDecrease]_vars

\* Setup has been called on a hart that had executed instructions: its
\* registers show the instructions gone and cycles is 0 again.
C19_Witness ==
    \E h \in Harts :
        /\ cycles[h] = 0
        /\ before[h].cycles > 0
        /\ instr[h] # NoInstr
        /\ regs[h] = ZeroRegs

\* What holds of the code: cycles decreases only by a call of Setup, which
\* makes it 0; every iteration of Step, faulting or not, adds 1.
CyclesStepOrReset ==
    \A h \in Harts :
        \/ cycles'[h] = cycles[h]
        \/ cycles'[h] = cycles[h] + 1 /\ ctl[h] = "step"
        \/ cycles'[h] = 0 /\ ctl[h] = "idle" /\ regs'[h] = ZeroRegs
C19_CyclesStepOrReset == [][CyclesStepOrReset]_vars

\* ------------------------------------------------------------------------
\* The addresses of the CSR map, one hart from reset running the whole
\* instruction set (Spec)
\* ------------------------------------------------------------------------

\* The addresses the constructor and Setup populate.
ResetCsrs(h) == DOMAIN Setup(ConstructorCsrs(h))

InvalidCsrErrors == {"Read Invalid CSR", "Write Invalid CSR"}

\* Hart h has just executed a CSR instruction that reads or writes its
\* CSR, at Machine level.
CsrAccessed(h) ==
    /\ instr[h].type \in CsrTypes
    /\ JustExecuted(h)
    /\ before[h].privilege_level = "Machine"
    /\ instr[h].rd # REG_ZERO \/ CsrWrites(h)

\* C20: the addresses of the CSR map are those populated at reset in
\* every state, and a CSR instruction that reads or writes an address
\* outside them raises the invalid-CSR error.
C20_CsrSetFixed ==
    \A h \in Harts :
        /\ DOMAIN csrs[h] = ResetCsrs(h)
        /\ (CsrAccessed(h) /\ ToNat(instr[h].immediate) \notin ResetCsrs(h))
              => err[h] \in InvalidCsrErrors

\* A floating-point instruction with dynamic rounding has executed
\* without an error and fcsr is an address of the map.
C20_Witness ==
    \E h \in Harts :
        /\ instr[h].type \in RoundedTypes
        /\ instr[h].rm = RM_DYNAMIC
        /\ JustExecuted(h)
        /\ err[h] = "none"
        /\ CSR_FCSR \notin DOMAIN before[h].csrs
        /\ CSR_FCSR \in DOMAIN csrs[h]

\* What holds of the code: no address is ever removed, fcsr is the only
\* address added, and a CSR instruction that reads or writes an address
\* absent from the map when it begins raises the invalid-CSR error and
\* leaves the map as it was.
C20_CsrSetGrowsByFcsr ==
    \A h \in Harts :
        /\ ResetCsrs(h) \subseteq DOMAIN csrs[h]
        /\ DOMAIN csrs[h] \subseteq ResetCsrs(h) \cup {CSR_FCSR}
        /\ (/\ CsrAccessed(h)
            /\ ToNat(instr[h].immediate) \notin DOMAIN before[h].csrs)
              => (err[h] \in InvalidCsrErrors /\ csrs[h] = before[h].csrs)

\* ------------------------------------------------------------------------
\* CSR read-modify-write on a writable CSR (SpecRmw)
\* ------------------------------------------------------------------------

RmwProgram ==
    {Instr(t, rd, rs1, 0, 0, Lit(CSR_SSCRATCH), 0) :
     t \in CsrRegTypes, rd \in {0, 1, 2}, rs1 \in {0, 1, 2}}

InitRmw ==
    InitWith(RegsWith(Lit(5), Lit(3)), ZeroFregs, "Machine", ZeroRam, {{}})

NextRmw == Run(MainHart, RmwProgram, MaxSteps, MaxCycles)

SpecRmw == InitRmw /\ [][NextRmw]_vars

\* C21: CSRRS (CSRRC) on a writable CSR writes the CSR's old value to rd
\* and stores old | rs1 (old & ~rs1), rs1 being the register's value
\* before the instruction also when rd = rs1; with rs1 = x0 the CSR is
\* left as it was; CSRRW stores the old value of rs1; none raises an
\* error.
C21_CsrReadModifyWrite ==
    \A h \in Harts :
        (instr[h].type \in CsrRegTypes /\ JustExecuted(h)
         /\ before[h].privilege_level = "Machine"
         /\ ToNat(instr[h].immediate) = CSR_SSCRATCH) =>
            LET old == before[h].csrs[CSR_SSCRATCH]
                v == before[h].regs[instr[h].rs1]
                t == instr[h].type
            IN  /\ err[h] = "none"
                /\ instr[h].rd # REG_ZERO => regs[h][instr[h].rd] = old
                /\ \A r \in 0..(REGISTER_COUNT - 1) :
                      r # instr[h].rd => regs[h][r] = before[h].regs[r]
                /\ csrs[h][CSR_SSCRATCH] =
                      CASE t = "CSRRW" -> v
                        [] t = "CSRRS" ->
                             IF instr[h].rs1 = REG_ZERO THEN old
                             ELSE Or32(old, v)
                        [] t = "CSRRC" ->
                             IF instr[h].rs1 = REG_ZERO THEN old
                             ELSE And32(old, Not32(v))
                /\ \A c \in DOMAIN csrs[h] :
                      c # CSR_SSCRATCH => csrs[h][c] = before[h].csrs[c]

\* CSRRS x1, sscratch, x1 with sscratch = 3 and x1 = 5: x1 = 3 and
\* sscratch = 7.
C21_Witness ==
    \E h \in Harts :
        /\ instr[h] = Instr("CSRRS", 1, 1, 0, 0, Lit(CSR_SSCRATCH), 0)
        /\ JustExecuted(h)
        /\ before[h].csrs[CSR_SSCRATCH] = Lit(3)
        /\ before[h].regs[1] = Lit(5)
        /\ regs[h][1] = Lit(3)
        /\ csrs[h][CSR_SSCRATCH] = Lit(7)

\* ------------------------------------------------------------------------
\* Arithmetic right shifts on drawn operands (SpecShift)
\* ------------------------------------------------------------------------

ShiftValues == OperandWords \cup {Lit(5), U32(16384, 0), U32(49152, 6)}
ShiftAmounts == {0, 1, 2, 31}

\* SRAI with the amount in the rs2 field, SRA with it in register x2.
ShiftProgram ==
    {Instr("SRAI", 3, 1, s, 0, Lit(0), 0) : s \in ShiftAmounts}
    \cup {Instr("SRA", 3, 1, 2, 0, Lit(0), 0)}

\* x2 holds an amount, with or without bits above the low five.
InitShift ==
    \E v \in ShiftValues, s \in ShiftAmounts, high \in {0, 32} :
        InitWith(RegsWith(v, Lit(s + high)), ZeroFregs, "Machine", ZeroRam,
                 {{}})

NextShift == Run(MainHart, ShiftProgram, DataSteps, DataSteps)

SpecShift == InitShift /\ [][NextShift]_vars

\* floor(signed(v) / 2^s) as a 32-bit two's-complement value, s in 0..31.
ArithShift(v, s) ==
    IF s = 31
    THEN IF v[1] >= 32768 THEN U32(65535, 65535) ELSE Lit(0)
    ELSE AsUnsigned(AsSigned(v) \div (2 ^ s))

\* The amount of the shift hart h has executed.
ShiftAmount(h) ==
    IF instr[h].type = "SRAI" THEN instr[h].rs2
    ELSE before[h].regs[instr[h].rs2][2] % 32

\* C22: SRAI and SRA write to rd the arithmetic right shift of regs[rs1]
\* by the amount, floor(signed(v) / 2^s).
C22_SraArithmetic ==
    \A h \in Harts :
        (instr[h].type \in {"SRAI", "SRA"} /\ JustExecuted(h)) =>
            /\ err[h] = "none"
            /\ regs[h][instr[h].rd]
                  = ArithShift(before[h].regs[instr[h].rs1], ShiftAmount(h))

\* SRAI x3, x1, 2 with x1 = 0x80000000 has written 0x20000000.
C22_Witness ==
    \E h \in Harts :
        /\ instr[h] = Instr("SRAI", 3, 1, 2, 0, Lit(0), 0)
        /\ JustExecuted(h)
        /\ before[h].regs[1] = U32(32768, 0)
        /\ regs[h][3] = U32(8192, 0)

\* What holds of the code: the shift is right for an amount of 1..31 when
\* bit 31 and bit 32 - amount of the operand are both clear, and it is the
\* logical shift whenever bit 32 - amount is clear.
C22_SraNonNegative ==
    \A h \in Harts :
        (instr[h].type \in {"SRAI", "SRA"} /\ JustExecuted(h)
         /\ ShiftAmount(h) > 0
         /\ Bit32(before[h].regs[instr[h].rs1], 32 - ShiftAmount(h)) = 0) =>
            LET v == before[h].regs[instr[h].rs1]
            IN  /\ regs[h][instr[h].rd] = Shr32(v, ShiftAmount(h))
                /\ v[1] < 32768 =>
                      regs[h][instr[h].rd] = ArithShift(v, ShiftAmount(h))

\* ------------------------------------------------------------------------
\* FMIN and FMAX on drawn operands (SpecMinMax)
\* ------------------------------------------------------------------------

\* Single-precision +0, -0, 1, -1, a quiet and a signalling NaN, in the low
\* word; the same in double precision.
MinMaxSingles ==
    {<<U32(65535, 65535), w>> :
     w \in {Lit(0), U32(32768, 0), U32(16256, 0), U32(49024, 0),
            U32(32704, 0), U32(32640, 1)}}
MinMaxDoubles ==
    {<<w, Lit(0)>> :
     w \in {Lit(0), U32(32768, 0), U32(16368, 0), U32(49136, 0),
            U32(32760, 0)}}
    \cup {<<U32(32752, 0), Lit(1)>>}

MinMaxProgram ==
    {Instr(t, 3, 1, 2, 0, Lit(0), RM_ROUND_TO_NEAREST_TIES_EVEN) :
     t \in FMinMaxTypes}

InitMinMax ==
    \E set \in {MinMaxSingles, MinMaxDoubles} :
        \E a \in set, b \in set :
            InitWith(ZeroRegs, [ZeroFregs EXCEPT ![1] = a, ![2] = b],
                     "Machine", ZeroRam, {{}})

NextMinMax == Run(MainHart, MinMaxProgram, DataSteps, DataSteps)

SpecMinMax == InitMinMax /\ [][NextMinMax]_vars

\* The value is a NaN of the precision of the type.
IsNaN(type, value) ==
    Class(type, value).is_nan \/ Class(type, value).is_qnan

\* The NV flag is set in fcsr.
NvSet(map) ==
    CSR_FCSR \in DOMAIN map
    /\ And32(map[CSR_FCSR], Lit(CSR_FCSR_NV)) # Lit(0)

\* C23: FMIN / FMAX with exactly one NaN operand write the other operand
\* to rd and set NV; with two NaN operands they write the canonical NaN
\* and set NV; with none they set no flag and, the signs differing, the
\* negative operand is the minimum and the other the maximum.
C23_MinMaxNaN ==
    \A h \in Harts :
        (instr[h].type \in FMinMaxTypes /\ JustExecuted(h)) =>
            LET t == instr[h].type
                a == before[h].fregs[instr[h].rs1]
                b == before[h].fregs[instr[h].rs2]
                rd == fregs[h][instr[h].rd]
                is_min == t \in {"FMIN_S", "FMIN_D"}
                a_neg == Class(t, a).is_neg
                b_neg == Class(t, b).is_neg
            IN  /\ err[h] = "none"
                /\ (IsNaN(t, a) /\ ~IsNaN(t, b)) =>
                      (rd = b /\ NvSet(csrs[h]))
                /\ (~IsNaN(t, a) /\ IsNaN(t, b)) =>
                      (rd = a /\ NvSet(csrs[h]))
                /\ (IsNaN(t, a) /\ IsNaN(t, b)) =>
                      (rd = CanonicalNaN(t) /\ NvSet(csrs[h]))
                /\ (~IsNaN(t, a) /\ ~IsNaN(t, b)) =>
                      /\ csrs[h] = before[h].csrs
                      /\ a_neg # b_neg =>
                            rd = IF is_min = a_neg THEN a ELSE b

\* FMAX.S f3, f1, f2 with f1 a quiet NaN and f2 = 1.0 has written the NaN.
C23_Witness ==
    \E h \in Harts :
        /\ instr[h].type = "FMAX_S" /\ JustExecuted(h)
        /\ before[h].fregs[1] = <<U32(65535, 65535), U32(32704, 0)>>
        /\ before[h].fregs[2] = <<U32(65535, 65535), U32(16256, 0)>>
        /\ fregs[h][3] = <<U32(65535, 65535), U32(32704, 0)>>
        /\ NvSet(csrs[h])

\* What holds of the code: FMIN is as claimed; FMAX with exactly one NaN
\* operand writes that NaN to rd, and is as claimed otherwise.
C23_MinRightMaxNaN ==
    \A h \in Harts :
        (instr[h].type \in FMinMaxTypes /\ JustExecuted(h)) =>
            LET t == instr[h].type
                a == before[h].fregs[instr[h].rs1]
                b == before[h].fregs[instr[h].rs2]
                rd == fregs[h][instr[h].rd]
                is_min == t \in {"FMIN_S", "FMIN_D"}
                a_neg == Class(t, a).is_neg
                b_neg == Class(t, b).is_neg
            IN  /\ err[h] = "none"
                /\ (IsNaN(t, a) /\ ~IsNaN(t, b)) =>
                      (rd = (IF is_min THEN b ELSE a) /\ NvSet(csrs[h]))
                /\ (~IsNaN(t, a) /\ IsNaN(t, b)) =>
                      (rd = (IF is_min THEN a ELSE b) /\ NvSet(csrs[h]))
                /\ (IsNaN(t, a) /\ IsNaN(t, b)) =>
                      (rd = CanonicalNaN(t) /\ NvSet(csrs[h]))
                /\ (~IsNaN(t, a) /\ ~IsNaN(t, b)) =>
                      /\ csrs[h] = before[h].csrs
                      /\ a_neg # b_neg =>
                            rd = IF is_min = a_neg THEN a ELSE b

\* ------------------------------------------------------------------------
\* Float-to-integer conversions on drawn operands (SpecCvt)
\* ------------------------------------------------------------------------

CvtProgram ==
    {Instr(t, 3, 1, 0, 0, Lit(0), RM_ROUND_TO_NEAREST_TIES_EVEN) :
     t \in FCvtToIntTypes}

InitCvt ==
    \E v \in ClassValues :
        InitWith(ZeroRegs, [ZeroFregs EXCEPT ![1] = v], "Machine", ZeroRam,
                 {{}})

NextCvt == Run(MainHart, CvtProgram, DataSteps, DataSteps)

SpecCvt == InitCvt /\ [][NextCvt]_vars

\* The NX flag is set in fcsr.
NxSet(map) ==
    CSR_FCSR \in DOMAIN map
    /\ And32(map[CSR_FCSR], Lit(CSR_FCSR_NX)) # Lit(0)

\* What the conversion t is claimed to write for the class c of an
\* infinity or a NaN (nothing is claimed of FCVT.WU of a NaN: the empty
\* set stands for it).
Clamped(t, c) ==
    IF t \in {"FCVT_W_S", "FCVT_W_D"}
    THEN IF c.is_inf /\ c.is_neg THEN {U32(32768, 0)}
         ELSE {U32(32767, 65535)}
    ELSE IF c.is_inf THEN (IF c.is_neg THEN {Lit(0)}
                           ELSE {U32(65535, 65535)})
         ELSE {}

\* C24: FCVT.W writes INT32_MAX for +Inf and NaN and INT32_MIN for -Inf,
\* FCVT.WU writes UINT32_MAX for +Inf and 0 for -Inf, and NX is set.
C24_CvtClamps ==
    \A h \in Harts :
        (instr[h].type \in FCvtToIntTypes /\ JustExecuted(h)) =>
            LET t == instr[h].type
                c == Class(t, before[h].fregs[instr[h].rs1])
            IN  (c.is_inf \/ c.is_nan \/ c.is_qnan) =>
                    /\ err[h] = "none"
                    /\ NxSet(csrs[h])
                    /\ \A w \in Clamped(t, c) : regs[h][instr[h].rd] = w

\* FCVT.W.S x3, f1 with f1 = -Inf has written 0xFFFFFFFF.
C24_Witness ==
    \E h \in Harts :
        /\ instr[h].type = "FCVT_W_S" /\ JustExecuted(h)
        /\ before[h].fregs[1] = <<U32(65535, 65535), U32(65408, 0)>>
        /\ regs[h][3] = U32(65535, 65535)
        /\ NxSet(csrs[h])

\* What holds of the code: the clamps are as claimed but for FCVT.W of
\* -Inf, which writes 0xFFFFFFFF; NX is set for every infinity and NaN.
C24_CvtClampsButMinusInf ==
    \A h \in Harts :
        (instr[h].type \in FCvtToIntTypes /\ JustExecuted(h)) =>
            LET t == instr[h].type
                c == Class(t, before[h].fregs[instr[h].rs1])
            IN  (c.is_inf \/ c.is_nan \/ c.is_qnan) =>
                    /\ err[h] = "none"
                    /\ NxSet(csrs[h])
                    /\ IF t \in {"FCVT_W_S", "FCVT_W_D"}
                             /\ c.is_inf /\ c.is_neg
                       THEN regs[h][instr[h].rd] = U32(65535, 65535)
                       ELSE \A w \in Clamped(t, c) :
                               regs[h][instr[h].rd] = w


\* ------------------------------------------------------------------------
\* The Sv32 walk over drawn page tables (SpecWalk)
\* ------------------------------------------------------------------------

\* Page-table entries: invalid; V|W; a superpage leaf V|R|A with PPN_1 = 0
\* (the identity superpage) and one with PPN_1 = 0x401; a leaf with
\* PPN = 2; a pointer to the table at RamBase; a leaf without A; a leaf
\* V|R|W|A|D with PPN_1 = 1; a leaf V|R|A with PPN = 0x100405; a pointer
\* to a table outside RAM.
WalkEntries ==
    {Lit(0), Lit(5), Lit(67), U32(16400, 67), Lit(2115), Lit(2049), Lit(3),
     U32(16, 199), U32(16400, 5187), Lit(3073)}

\* Virtual addresses: vpn_1 = 0 with vpn_0 = 0 and 1, vpn_1 = 1 with
\* vpn_0 = 0 and 1, and vpn_1 = 2 (no entry in RAM).
WalkAddresses ==
    {Lit(291), Lit(6844), U32(64, 8), U32(64, 4100), U32(128, 0)}

\* RAM holding the words w0 at RamBase and w1 at RamBase + 4.
RamWords(w0, w1) ==
    [a \in RamAddrs |->
        ByteOf(IF a[2] < RamBase + 4 THEN w0 ELSE w1, (a[2] - RamBase) % 4)]

\* CSRRW x0, satp, x1 (x1 = RamBase / 4096) and CUST_TVA x3, x2.
WalkProgram ==
    {Instr("CSRRW", 0, 1, 0, 0, Lit(CSR_SATP), 0),
     Instr("CUST_TVA", 3, 2, 0, 0, Lit(0), 0)}

InitWalk ==
    \E w0 \in WalkEntries, w1 \in WalkEntries, v \in WalkAddresses :
        InitWith(RegsWith(Lit(RamBase \div 4096), v), ZeroFregs, "Machine",
                 RamWords(w0, w1), {{}})

NextWalk == Run(MainHart, WalkProgram, MaxSteps, MaxCycles)

SpecWalk == InitWalk /\ [][NextWalk]_vars

\* The fields of a virtual address and of a page-table entry, by
\* arithmetic on the halves of the word.
VaOffset(v) == v[2] % 4096
VaVpn0(v) == (v[1] % 64) * 16 + v[2] \div 4096
VaVpn1(v) == v[1] \div 64
EntryPPN1(e) == e[1] \div 16
EntryPPN0(e) == (e[1] % 16) * 64 + e[2] \div 1024
EntryPPN(e) == e[1] * 64 + e[2] \div 1024
EntryBit(e, k) == (e[2] \div (2 ^ k)) % 2
EntryLeaf(e) == EntryBit(e, 1) = 1 \/ EntryBit(e, 2) = 1 \/ EntryBit(e, 3) = 1

\* The first-level entry of the walk that hart h has just made, and the
\* second-level entry behind it when it is a pointer: <<word, present>>.
FirstEntry(h) ==
    PeekWord(before[h].bus,
             Add32(Shl32(before[h].csrs[CSR_SATP], 12),
                   Lit(VaVpn1(before[h].regs[instr[h].rs1]) * 4)))
SecondEntry(h) ==
    PeekWord(before[h].bus,
             Add32(Shl32(Lit(EntryPPN(FirstEntry(h)[1])), 12),
                   Lit(VaVpn0(before[h].regs[instr[h].rs1]) * 4)))

Walked(h) == instr[h].type = "CUST_TVA" /\ JustExecuted(h)

\* C25: a walk that does not fault returns {PPN_1, vpn_0, offset} for a
\* leaf at the first level and {PPN, offset} for a leaf at the second
\* level, in 32 bits; the low 12 bits are those of the virtual address;
\* memory and the CSR map are as before; and an address that maps to
\* itself translates to itself again.
C25_WalkResult ==
    \A h \in Harts :
        (Walked(h) /\ err[h] = "none") =>
            LET v == before[h].regs[instr[h].rs1]
                first == FirstEntry(h)[1]
                second == SecondEntry(h)[1]
                got == regs[h][instr[h].rd]
            IN  /\ got = IF EntryLeaf(first)
                         THEN U32((EntryPPN1(first) * 64 + VaVpn0(v) \div 16)
                                  % 65536,
                                  (VaVpn0(v) % 16) * 4096 + VaOffset(v))
                         ELSE U32((EntryPPN(second) \div 16) % 65536,
                                  (EntryPPN(second) % 16) * 4096
                                  + VaOffset(v))
                /\ got[2] % 4096 = v[2] % 4096
                /\ memory = before[h].bus.bytes
                /\ csrs[h] = before[h].csrs
                /\ got = v =>
                      TranslateMemoryAddress(View(h), got, FALSE) =
                          [err |-> "none", value |-> got]

\* A two-level walk has been made: 0x1ABC through the pointer at RamBase
\* to the leaf with PPN = 0x100405 at RamBase + 4, giving 0x00405ABC.
C25_Witness ==
    \E h \in Harts :
        /\ Walked(h) /\ err[h] = "none"
        /\ before[h].regs[2] = Lit(6844)
        /\ ~EntryLeaf(FirstEntry(h)[1])
        /\ regs[h][3] = U32(64, 23228)

\* A superpage walk has been made: 0x123 maps to itself through the
\* identity superpage.
WalkedIdentity ==
    \E h \in Harts :
        /\ Walked(h) /\ err[h] = "none"
        /\ before[h].regs[2] = Lit(291)
        /\ EntryLeaf(FirstEntry(h)[1])
        /\ regs[h][3] = Lit(291)


\* An entry that ReadTLBEntry rejects: V = 0, or R = 0 with W = 1.
EntryBad(e) ==
    EntryBit(e, 0) = 0 \/ (EntryBit(e, 1) = 0 /\ EntryBit(e, 2) = 1)

\* The fault cases of a read walk, over the entries that hart h's walk
\* has read.
WalkFaultCase(h) ==
    LET first == FirstEntry(h)
        second == SecondEntry(h)
    IN  \/ ~first[2]
        \/ EntryBad(first[1])
        \/ /\ EntryLeaf(first[1])
           /\ EntryPPN0(first[1]) # 0 \/ EntryBit(first[1], 6) = 0
        \/ /\ ~EntryLeaf(first[1])
           /\ \/ ~second[2]
              \/ EntryBad(second[1])
              \/ ~EntryLeaf(second[1])
              \/ EntryBit(second[1], 6) = 0

\* The leaf that hart h's walk has found has D set.
WalkLeafDirty(h) ==
    LET first == FirstEntry(h)[1]
    IN  EntryBit(IF EntryLeaf(first) THEN first ELSE SecondEntry(h)[1], 7) = 1

\* C26: the walk of CUST_TVA (a read access) faults exactly when an entry
\* address is absent from memory, an entry read has V = 0 or R = 0 with
\* W = 1, the first-level entry is a leaf with PPN_0 # 0, the first-level
\* entry is a pointer and the second-level entry is not a leaf, or the
\* leaf has A = 0; a leaf with D set does not fault a read, and faults
\* the same walk made for a write; and on a fault rd (every register) and
\* pc are as before the instruction.
C26_WalkFaults ==
    \A h \in Harts :
        Walked(h) =>
            /\ err[h] # "none" <=> WalkFaultCase(h)
            /\ TranslateMemoryAddress(before[h],
                                      before[h].regs[instr[h].rs1],
                                      TRUE).err # "none"
                  <=> (WalkFaultCase(h) \/ WalkLeafDirty(h))
            /\ err[h] # "none" =>
                  regs[h] = before[h].regs /\ pc[h] = before[h].pc

\* A walk has faulted at the second level: the entry behind the pointer
\* is itself a pointer; x3 and pc are as before.
C26_Witness ==
    \E h \in Harts :
        /\ Walked(h)
        /\ err[h] = "Address translation failed, PPN page-fault"
        /\ FirstEntry(h) = <<Lit(2049), TRUE>>
        /\ SecondEntry(h) = <<Lit(2049), TRUE>>
        /\ regs[h][3] = Lit(0)
        /\ pc[h] = before[h].pc


\* ------------------------------------------------------------------------
\* Rounding-mode selection (SpecRound)
\* ------------------------------------------------------------------------

\* FADD.S f3, f1, f2 with each rm field, and CSRRW x0, fcsr, x1.
RoundProgram ==
    {Instr("FADD_S", 3, 1, 2, 0, Lit(0), rm) : rm \in 0..7}
    \cup {Instr("CSRRW", 0, 1, 0, 0, Lit(CSR_FCSR), 0)}

\* x1 holds a value for fcsr with each value of bits [7:5].
InitRound ==
    \E frm \in 0..7 :
        InitAt(AtomicPc, RegsWith(Lit(frm * 32), Lit(0)), ZeroFregs,
               "Machine", ZeroRam, {{}})

NextRound == Run(MainHart, RoundProgram, MaxSteps, AtomicSteps)

SpecRound == InitRound /\ [][NextRound]_vars

Rounded(h) == instr[h].type \in RoundedTypes /\ JustExecuted(h)

\* Bits [7:5] of fcsr as the instruction of hart h found them (0 when the
\* map had no fcsr yet).
DynamicMode(h) ==
    IF CSR_FCSR \in DOMAIN before[h].csrs
    THEN (before[h].csrs[CSR_FCSR][2] \div 32) % 8
    ELSE 0

StaticModes ==
    {RM_ROUND_TO_NEAREST_TIES_EVEN, RM_ROUND_TO_ZERO, RM_ROUND_DOWN,
     RM_ROUND_UP}

\* C27: the selection of the rounding mode ends with a decision: rm 000
\* to 011 is accepted, rm 100, 101 and 110 raise the invalid instruction,
\* and rm 111 decides in the same way on bits [7:5] of fcsr, whatever
\* their value.
C27_RoundingDecides ==
    \A h \in Harts :
        Rounded(h) =>
            LET rm == instr[h].rm
                mode == IF rm = RM_DYNAMIC THEN DynamicMode(h) ELSE rm
            IN  /\ err[h] \in {"none", "Invalid instruction"}
                /\ mode \in StaticModes => err[h] = "none"
                /\ (rm # RM_DYNAMIC /\ rm \notin StaticModes)
                      => err[h] = "Invalid instruction"

\* FADD.S with rm = 111 has met fcsr[7:5] = 111: Step has not returned.
C27_Witness ==
    \E h \in Harts :
        /\ Rounded(h)
        /\ instr[h].rm = RM_DYNAMIC
        /\ DynamicMode(h) = RM_DYNAMIC
        /\ err[h] \in {StackOverflow, NeverReturns}
        /\ ctl[h] \in {"crash", "hang"}

\* What holds of the code: the selection decides as claimed unless rm is
\* 111 and fcsr[7:5] is 111 too, where it never returns.
C27_RoundingDecidesButDynamicTwice ==
    \A h \in Harts :
        Rounded(h) =>
            LET rm == instr[h].rm
                mode == IF rm = RM_DYNAMIC THEN DynamicMode(h) ELSE rm
            IN  /\ mode \in StaticModes => err[h] = "none"
                /\ mode \in {RM_ROUND_TO_NEAREST_TIES_MAX_MAGNITUDE,
                             RM_INVALID0, RM_INVALID1}
                      => err[h] = "Invalid instruction"
                /\ (rm # RM_DYNAMIC /\ mode = RM_DYNAMIC)
                      => err[h] = "Invalid instruction"
                /\ (rm = RM_DYNAMIC /\ mode = RM_DYNAMIC)
                      => err[h] \in {StackOverflow, NeverReturns}


\* ------------------------------------------------------------------------
\* Instructions that end in an error (SpecFault)
\* ------------------------------------------------------------------------

\* x1 = RamBase + 4 (the last word of RAM), x2 = 0, f2 = a double with
\* two non-zero halves.
FaultFregs == [ZeroFregs EXCEPT ![2] = <<Lit(4660), Lit(22136)>>]

\* FSD f2, 0(x1) and 4(x1); SW x1, 4(x1); DIV x3, x1, x2; INVALID; MRET;
\* CSRRW x3, 0x7FF, x1 (no such CSR); LR.W x3, (x1) with rs2 = 1; CUST_TVA x3, x1;
\* FADD.S with rm = 100 and 111; ECALL; JALR x0, 2(x2).
FaultProgram ==
    {Instr("FSD", 0, 1, 2, 0, Lit(0), 0),
     Instr("FSD", 0, 1, 2, 0, Lit(4), 0),
     Instr("SW", 0, 1, 1, 0, Lit(4), 0),
     Instr("DIV", 3, 1, 2, 0, Lit(0), 0),
     Instr("INVALID", 0, 0, 0, 0, Lit(0), 0),
     Instr("MRET", 0, 0, 0, 0, Lit(0), 0),
     Instr("CSRRW", 3, 1, 0, 0, Lit(2047), 0),
     Instr("LR_W", 3, 1, 1, 0, Lit(0), 0),
     Instr("CUST_TVA", 3, 1, 0, 0, Lit(0), 0),
     Instr("FADD_S", 3, 1, 2, 0, Lit(0), RM_ROUND_TO_NEAREST_TIES_MAX_MAGNITUDE),
     Instr("FADD_S", 3, 1, 2, 0, Lit(0), RM_DYNAMIC),
     Instr("ECALL", 0, 0, 0, 0, Lit(0), 0),
     Instr("JALR", 0, 2, 0, 0, Lit(2), 0)}

InitFault ==
    InitWith(RegsWith(WordY, Lit(0)), FaultFregs, "Machine", ZeroRam, {{}})

NextFault == Run(MainHart, FaultProgram, MaxSteps, MaxCycles)

SpecFault == InitFault /\ [][NextFault]_vars

\* The iteration hart h has just made ended in an error.
Faulted(h) == JustExecuted(h) /\ err[h] # "none"

\* C28: after an instruction that ended in an error, pc, the integer and
\* float registers, the CSR map, the privilege level and memory are as
\* they were before the instruction.
C28_FaultHasNoEffect ==
    \A h \in Harts :
        Faulted(h) =>
            /\ pc[h] = before[h].pc
            /\ regs[h] = before[h].regs
            /\ fregs[h] = before[h].fregs
            /\ csrs[h] = before[h].csrs
            /\ privilege_level[h] = before[h].privilege_level
            /\ memory = before[h].bus.bytes

\* FSD f2, 0(x1) on the last word of RAM has faulted on its second word
\* after storing the first.
C28_Witness ==
    \E h \in Harts :
        /\ Faulted(h)
        /\ instr[h] = Instr("FSD", 0, 1, 2, 0, Lit(0), 0)
        /\ err[h] = MemoryFault
        /\ PeekWord(before[h].bus, WordY) = <<Lit(0), TRUE>>
        /\ PeekWord(View(h).bus, WordY) = <<Lit(22136), TRUE>>

\* What holds of the code: an instruction that ended in an error leaves
\* pc, the registers and the privilege level as they were, and memory
\* and the CSR map too unless it is an FSD.
C28_FaultKeepsRegisters ==
    \A h \in Harts :
        Faulted(h) =>
            /\ pc[h] = before[h].pc
            /\ regs[h] = before[h].regs
            /\ fregs[h] = before[h].fregs
            /\ privilege_level[h] = before[h].privilege_level
            /\ instr[h].type # "FSD" =>
                  memory = before[h].bus.bytes /\ csrs[h] = before[h].csrs


\* ------------------------------------------------------------------------
\* The privilege level under Step and Setup (SpecLevel)
\* ------------------------------------------------------------------------

\* The whole instruction set stepped from reset, and Setup called between
\* calls of Step.
NextLevel == Next \/ (SetupCall(MainHart) /\ cycles[MainHart] > 0)

SpecLevel == Init /\ [][NextLevel]_vars

\* C29: the privilege level of every hart is Machine in every state, and
\* no CSR instruction ends in a privilege error.
C29_AlwaysMachine ==
    \A h \in Harts :
        /\ privilege_level[h] = "Machine"
        /\ (instr[h].type \in CsrTypes /\ JustExecuted(h)) =>
              err[h] \notin {"CSR Read Privilege", "CSR Write Privilege"}

\* A CSR instruction on sscratch has been executed without error as the
\* second instruction after a reset.
C29_Witness ==
    \E h \in Harts :
        /\ instr[h].type \in CsrTypes /\ JustExecuted(h)
        /\ ToNat(instr[h].immediate) = CSR_SSCRATCH
        /\ before[h].cycles = 1
        /\ err[h] = "none"
        /\ privilege_level[h] = "Machine"


\* ------------------------------------------------------------------------
\* A hart resumed at a breakpoint (SpecRun)
\* ------------------------------------------------------------------------

\* Hart h is at the first test of the loop of a Step(steps >= 1) entered
\* with pc at a breakpoint, and the test succeeds.
EnteredAtBreakPoint(h) ==
    /\ ctl[h] = "step"
    /\ i[h] = 0
    /\ steps[h] >= 1
    /\ running[h]
    /\ AtBreakPoint(h)

\* From there the hart leaves the loop test only by an iteration on the
\* instruction at that pc, and Step returns true only by an iteration;
\* the run loop sets paused only after a call of Step that executed an
\* instruction.
ResumeStep ==
    \A h \in Harts :
        /\ (EnteredAtBreakPoint(h)
            /\ <<ctl[h], i[h], ret[h], cycles[h], pc[h]>>
               # <<ctl'[h], i'[h], ret'[h], cycles'[h], pc'[h]>>) =>
              /\ cycles'[h] = cycles[h] + 1
              /\ before'[h].pc = pc[h]
              /\ err'[h] = "none" => instr'[h] # NoInstr
        /\ (ctl[h] = "step" /\ ctl'[h] = "idle" /\ ret'[h]) =>
              cycles'[h] = cycles[h] + 1
        /\ (~paused[h] /\ paused'[h] /\ loop[h] = "call"
            /\ loop'[h] = "top") =>
              cycles[h] > entry_cycles[h]

\* C30: a Step(steps >= 1) entered with pc at a breakpoint (explicit or
\* EBREAK) executes the instruction there before it reports any
\* breakpoint, and the run loop pauses again only after a call of Step
\* that has executed at least one instruction.
C30_ResumeMakesProgress == [][ResumeStep]_vars

\* A call of Step from the run loop, entered with pc at a breakpoint
\* after an earlier batch, has executed the instruction there.
C30_Witness ==
    \E h \in Harts :
        /\ loop[h] = "call"
        /\ entry_cycles[h] >= 1
        /\ before[h].cycles = entry_cycles[h]
        /\ IsBreakPoint(break_points[h], before[h].pc)
        /\ JustExecuted(h)
        /\ instr[h] # NoInstr
        /\ err[h] = "none"

====
